---- MODULE Spec2Model ----
(***************************************************************************)
(* Model of the paper-extraction pipeline of ml_paper_visualizer:          *)
(* component extraction with its fallback ladder, relationship extraction, *)
(* the orchestrating process_paper function and its entry points.          *)
(*                                                                         *)
(* Eight specifications share the variables:                               *)
(*   SpecCE  one call of extract_components_from_text                      *)
(*   SpecRE  one call of extract_relationships                             *)
(*   SpecCH  one call of characterize_paper and the hand-over of its type  *)
(*   SpecVG  one call of generate_mermaid_diagram                          *)
(*   SpecAN  one call of analyze_relationships                             *)
(*   SpecPR  the background tasks of two uploaded papers, interleaved      *)
(*   SpecPW  one call of AIProcessor.process_with_prompt with its retries  *)
(*   Spec    one pipeline run, from upload to the end of the wrapper       *)
(***************************************************************************)
EXTENDS Integers, Sequences, FiniteSets, TLC

VARIABLES
    ce_pc,          \* position inside extract_components_from_text
    ce_type,        \* paper_type argument
    ce_primary,     \* response of the primary model call
    ce_fallback,    \* response of the fallback model call
    ce_calls,       \* model calls made so far, in order
    ce_result,      \* returned list of Component
    re_pc,          \* position inside extract_relationships
    re_components,  \* components argument
    re_response,    \* response of the relationship model call
    re_calls,       \* number of model calls made
    re_result,      \* returned value: a list of Relationship, or a raise
    ch_pc,          \* position inside the characterization stage
    ch_text,        \* paper_text argument of characterize_paper
    ch_response,    \* response of the characterization model call
    ch_result,      \* what characterize_paper returned
    ch_paper_type,  \* paper_type process_paper hands to the later stages
    vg_pc,          \* position inside generate_mermaid_diagram
    vg_components,  \* components argument
    vg_relationships, \* relationships argument
    vg_result,      \* returned dictionary
    an_pc,          \* position inside analyze_relationships
    an_components,  \* components argument
    an_relationships, \* relationships argument
    an_result,      \* returned dictionary
    pr_run,         \* per paper id: position, inputs and locals of its task
    pr_papers,      \* PaperDatabase.papers
    pr_files,       \* per paper id: its temporary file
    pw_pc,          \* position inside the call of process_with_prompt
    pw_attempts,    \* times the retry decorator has invoked the function
    pw_requests,    \* requests the client has sent in this invocation
    pw_outcomes,    \* outcome of every request sent, in order
    pw_result,      \* returned value
    pc,             \* position of the pipeline run
    entry,          \* entry point of the run: upload, path or service
    parser,         \* extractor_type of the run
    tempFile,       \* the on-disk copy of the uploaded file: none, exists, deleted
    inStore,        \* whether PaperDatabase holds the paper
    paper,          \* the Paper record of the run
    full_text,      \* text the extraction service works on
    svc,            \* locals of AIExtractionService.process_paper
    xres,           \* extraction_result handed to process_paper
    viz_response,   \* response of the diagram model call
    success,        \* value returned by process_paper
    executed,       \* stages executed so far in the run, in order
    ap_instance,    \* the module's _instance: 0 for None, else the object
    ap_objects,     \* AIProcessor objects made so far
    ap_state,       \* fields of the object: _initialized, api_key, client
    ap_clients,     \* AsyncOpenAI clients made so far
    ap_env,         \* the environment's OPENAI_API_KEY
    ap_refs,        \* per holder: the object its constructor call returned
    ap_given,       \* per holder: the api_key it passed
    ap_closed,      \* whether close() has run
    ap_calls,       \* model calls made so far
    ap_last         \* what the last model call did, and whether after close()

ceVars == <<ce_pc, ce_type, ce_primary, ce_fallback, ce_calls, ce_result>>
reVars == <<re_pc, re_components, re_response, re_calls, re_result>>
runVars == <<pc, entry, parser, tempFile, inStore, paper, full_text, svc, xres, viz_response, success, executed>>
chVars == <<ch_pc, ch_text, ch_response, ch_result, ch_paper_type>>
vgVars == <<vg_pc, vg_components, vg_relationships, vg_result>>
anVars == <<an_pc, an_components, an_relationships, an_result>>
prVars == <<pr_run, pr_papers, pr_files>>
pwVars == <<pw_pc, pw_attempts, pw_requests, pw_outcomes, pw_result>>
apVars == <<ap_instance, ap_objects, ap_state, ap_clients, ap_env, ap_refs, ap_given, ap_closed, ap_calls, ap_last>>
vars == <<ceVars, reVars, runVars, chVars, vgVars, anVars, prVars, pwVars, apVars>>

(***************************************************************************)
(* Bounds of the model                                                     *)
(***************************************************************************)
\* stages and nodes of a hierarchical response, taken together
MaxSize == 3
\* elements of the list a fallback response holds
MaxItems == 2

NoValue == "none"

(***************************************************************************)
(* Strings whose letter case matters are a word together with its casing.  *)
(***************************************************************************)
Str(w, c) == [word |-> w, case |-> c]
Upper(s) == [word |-> s.word, case |-> "upper"]

RECURSIVE SeqsUpTo(_, _)
SeqsUpTo(S, n) ==
    IF n = 0 THEN {<<>>}
    ELSE LET shorter == SeqsUpTo(S, n - 1)
         IN  shorter \cup {Append(q, x) : q \in {r \in shorter : Len(r) = n - 1}, x \in S}

(***************************************************************************)
(* core/models.py                                                          *)
(***************************************************************************)
PaperStatus == {"pending", "processing", "completed", "completed_minimal", "error", "failed"}

PaperType == {"new_architecture", "survey", "application", "theoretical", "unknown"}

\* member values of ComponentType (lower case in the source)
ComponentType ==
    {"dataset", "preprocessing", "model", "training", "evaluation", "results",
     "other", "layer", "module", "hyperparameter", "algorithm", "metric"}

\* member names of ComponentType
ComponentTypeNames ==
    {"DATASET", "PREPROCESSING", "MODEL", "TRAINING", "EVALUATION", "RESULTS",
     "OTHER", "LAYER", "MODULE", "HYPERPARAMETER", "ALGORITHM", "METRIC"}

\* ComponentType(value): lookup of a member by value, exact match
ComponentTypeByValue(s) ==
    IF s.case = "lower" /\ s.word \in ComponentType THEN s.word ELSE NoValue

\* a Component; id is filled in when the list is returned (uuid4: unique)
Component(type, name, section, details) ==
    [id |-> 0, type |-> type, name |-> name, source_section |-> section, details |-> details]

AssignIds(comps) == [i \in DOMAIN comps |-> [comps[i] EXCEPT !.id = i]]

(***************************************************************************)
(* Values a model response can carry in a "type" field                     *)
(***************************************************************************)
RawStr(w, c) == [kind |-> "str", word |-> w, case |-> c]
RawNull == [kind |-> "null", word |-> "", case |-> ""]
RawNum == [kind |-> "num", word |-> "", case |-> ""]
RawEnum(m) == [kind |-> "enum", word |-> m, case |-> "lower"]

JsonTypes ==
    {RawStr("dataset", "lower"), RawStr("model", "upper"), RawStr("banana", "lower"),
     RawNull, RawNum}

(***************************************************************************)
(* services/component_extraction.py                                        *)
(***************************************************************************)
\* _validate_component_type keeping a string it cannot look up
_validate_component_type_keepsUnknown(component_type) ==
    IF component_type.kind = "str"
    THEN LET m == ComponentTypeByValue(Upper(Str(component_type.word, component_type.case)))
         IN  IF m # NoValue THEN m ELSE component_type.word
    ELSE IF component_type.kind = "enum" THEN component_type.word
    ELSE "other"

_validate_component_type(component_type) ==
    IF component_type.kind = "str"
    THEN LET m == ComponentTypeByValue(Upper(Str(component_type.word, component_type.case)))
         IN  IF m # NoValue THEN m ELSE "other"
    ELSE IF component_type.kind = "enum" THEN component_type.word
    ELSE "other"

StartsWith(name, prefix) ==
    Len(name) >= Len(prefix) /\ SubSeq(name, 1, Len(prefix)) = prefix

\* _create_minimal_components naming the component after whatever it is given
_create_minimal_components_rawType(paper_type) ==
    << Component("other", <<"Paper", "Content", paper_type>>, "full_paper", "extraction_note") >>

_create_minimal_components(paper_type) ==
    LET valid == IF paper_type \in PaperType THEN paper_type ELSE "unknown"
    IN  << Component("other", <<"Paper", "Content", valid>>, "full_paper", "extraction_note") >>

\* terms of _section_to_component_type that a section name contains once
\* it is lower-cased
SectionTerms(section_name) ==
    CASE section_name = "Data" -> {"data"}
      [] section_name = "Architecture" -> {"architecture"}
      [] section_name = "Evaluation" -> {"evaluation"}
      [] section_name = "Results" -> {"result"}
      [] OTHER -> {}

\* AIExtractionService._section_to_component_type: the member name it reads
\* from ComponentType
_section_to_component_type(section_name) ==
    LET terms == SectionTerms(section_name)
    IN  IF terms \cap {"method", "approach", "model", "architecture"} # {} THEN "MODEL"
        ELSE IF terms \cap {"data", "dataset"} # {} THEN "DATA_COLLECTION"
        ELSE IF terms \cap {"result", "evaluation", "experiment"} # {} THEN "RESULTS"
        ELSE "OTHER"

\* a node of the hierarchical response
Node(keys, wellTyped, type, name, children) ==
    [keys |-> keys, wellTyped |-> wellTyped, type |-> type, name |-> name, children |-> children]

ChildNodes ==
    { Node(TRUE, TRUE, RawStr("layer", "upper"), <<"Attention">>, <<>>),
      Node(TRUE, FALSE, RawNull, <<"Attention">>, <<>>) }

\* top-level nodes before any child is added: well formed with each kind of
\* type value, without the required keys, or failing model validation
TopNodes ==
    { Node(TRUE, TRUE, t, <<"Transformer">>, <<>>) : t \in JsonTypes }
    \cup { Node(FALSE, TRUE, RawStr("model", "lower"), <<"Transformer">>, <<>>),
           Node(TRUE, FALSE, RawStr("model", "lower"), <<"Transformer">>, <<>>) }

StageNames == <<"Data", "Architecture", "Training", "Evaluation", "Results">>

\* traverse(component_data_list, stage): acc carries the components so far
\* and whether building a Component raised (which ends the whole parse)
RECURSIVE traverse(_, _, _)
traverse(nodes, stage, acc) ==
    IF nodes = <<>> \/ acc.raised THEN acc
    ELSE LET n == Head(nodes)
             afterNode ==
                 IF ~n.keys THEN acc
                 ELSE IF ~n.wellTyped THEN [acc EXCEPT !.raised = TRUE]
                 ELSE LET comp == Component(_validate_component_type(n.type), n.name, stage, "reported")
                          withComp == [acc EXCEPT !.comps = Append(@, comp)]
                      IN  IF n.children # <<>> THEN traverse(n.children, stage, withComp)
                          ELSE withComp
         IN  traverse(Tail(nodes), stage, afterNode)

RECURSIVE traverseStages(_, _)
traverseStages(stages, acc) ==
    IF stages = <<>> \/ acc.raised THEN acc
    ELSE traverseStages(Tail(stages),
                        traverse(Head(stages).components, Head(stages).stage_name, acc))

\* the primary response: what process_text gave back
PrimaryResponse(kind, stages) == [kind |-> kind, stages |-> stages]

_parse_hierarchical_response(response) ==
    IF response.kind # "tree" THEN <<>>
    ELSE traverseStages(response.stages, [comps |-> <<>>, raised |-> FALSE]).comps


\* stages of a response: stage i carries the i-th standard stage name
Stage(i, nodes) == [stage_name |-> StageNames[i], components |-> nodes]

\* a stage list grown by one: a new stage, a node in the last stage, or a
\* child of the last node
Grown(stages) ==
    (IF Len(stages) < Len(StageNames) THEN {Append(stages, Stage(Len(stages) + 1, <<>>))} ELSE {})
    \cup (IF stages # <<>>
          THEN {[stages EXCEPT ![Len(stages)].components = Append(@, n)] : n \in TopNodes}
          ELSE {})
    \cup (IF stages # <<>> /\ stages[Len(stages)].components # <<>>
          THEN {[stages EXCEPT ![Len(stages)].components =
                    [@ EXCEPT ![Len(@)].children = Append(@, c)]] : c \in ChildNodes}
          ELSE {})

RECURSIVE StageListsOfSize(_)
StageListsOfSize(n) ==
    IF n = 0 THEN {<<>>} ELSE UNION {Grown(s) : s \in StageListsOfSize(n - 1)}

StageLists == UNION {StageListsOfSize(n) : n \in 0..MaxSize}

\* process_text: the generic model call.  It gives back a string: empty or
\* None, an error string starting with {"error":, text that is not JSON,
\* JSON without the pipeline_stages root, or the requested tree; or it raises.
ProcessTextKinds == {"raise", "empty", "error", "malformed", "noroot"}

PrimaryResponses ==
    { PrimaryResponse(k, <<>>) : k \in ProcessTextKinds }
    \cup { PrimaryResponse("tree", st) : st \in StageLists }

(***************************************************************************)
(* utils/ai_processor.py: process_with_prompt with output_format="json"    *)
(***************************************************************************)
\* an element of the list the fallback call is asked for
FallbackItem(isDict, hasName, wellTyped, type) ==
    [isDict |-> isDict, hasName |-> hasName, wellTyped |-> wellTyped, type |-> type]

FallbackItems ==
    { FallbackItem(FALSE, FALSE, TRUE, RawNull),
      FallbackItem(TRUE, FALSE, TRUE, RawStr("model", "lower")),
      FallbackItem(TRUE, TRUE, FALSE, RawStr("model", "lower")) }
    \cup { FallbackItem(TRUE, TRUE, TRUE, t) : t \in {RawStr("metric", "lower"), RawStr("banana", "upper"), RawNull} }

\* a JSON value: kind is list, dict_components (an object whose components
\* key holds a list), dict_error (an object with an error key), dict_other,
\* str (a JSON string; inner tells what its text parses to) or scalar
JsonValue(kind, items, inner) == [kind |-> kind, items |-> items, inner |-> inner]

JsonValues ==
    LET lists == SeqsUpTo(FallbackItems, MaxItems)
    IN  { JsonValue(k, l, "") : k \in {"list", "dict_components"}, l \in lists }
        \cup { JsonValue("str", l, k) : k \in {"list", "dict_components"}, l \in {q \in lists : Len(q) <= 1} }
        \cup { JsonValue("str", <<>>, k) : k \in {"other", "notjson"} }
        \cup { JsonValue(k, <<>>, "") : k \in {"dict_error", "dict_other", "scalar"} }

ErrorDict == JsonValue("dict_error", <<>>, "")

\* what the chat completion does: no client, the call raises, or it gives
\* text that is JSON (plain), JSON in a fenced block, prose around an object
\* in braces, or prose without any JSON
Completion(client, wrap, value) == [client |-> client, wrap |-> wrap, value |-> value]

Completions ==
    { Completion(c, "", ErrorDict) : c \in {"none", "raises"} }
    \cup { Completion("ok", "plain", v) : v \in JsonValues }
    \cup { Completion("ok", w, v) : w \in {"fenced", "braces", "prose"},
                                    v \in {JsonValue("dict_components", <<>>, ""), JsonValue("dict_other", <<>>, "")} }
    \cup { Completion("ok", w, JsonValue("list", <<>>, "")) : w \in {"fenced", "prose"} }

process_with_prompt(completion) ==
    IF completion.client = "none" THEN ErrorDict
    ELSE IF completion.client = "raises" THEN ErrorDict
    ELSE IF completion.wrap \in {"plain", "fenced", "braces"} THEN completion.value
    ELSE ErrorDict

(***************************************************************************)
(* utils/ai_processor.py: the repetitions of process_with_prompt.  The     *)
(* retry decorator invokes the function again when it raised; the client,  *)
(* built with max_retries, sends a request again after a transient         *)
(* transport failure.                                                      *)
(***************************************************************************)
stop_after_attempt == 3
max_retries == 3

\* what one request gives: a transient transport failure, an error of the
\* API that is final, or a response
RequestOutcome(kind, completion) == [kind |-> kind, completion |-> completion]

RequestOutcomes ==
    { RequestOutcome(k, Completion("raises", "", ErrorDict)) : k \in {"transient", "fatal"} }
    \cup { RequestOutcome("response", c) : c \in {x \in Completions : x.client = "ok"} }

\* the function body from the request on, with no except clause around it
call_returned_noExcept(outcome) ==
    IF outcome.kind = "response"
    THEN [value |-> process_with_prompt(outcome.completion), raised |-> FALSE]
    ELSE [value |-> ErrorDict, raised |-> TRUE]

\* the function body from the request on: the response is parsed, and
\* whatever is raised is answered with the error dictionary
call_returned(outcome) ==
    [value |-> process_with_prompt(outcome.completion), raised |-> FALSE]

PWInit ==
    /\ pw_pc = "start"
    /\ pw_attempts = 0
    /\ pw_requests = 0
    /\ pw_outcomes = <<>>
    /\ pw_result = JsonValue("none", <<>>, "")

PWIdle ==
    /\ pw_pc = "idle" /\ pw_attempts = 0 /\ pw_requests = 0 /\ pw_outcomes = <<>>
    /\ pw_result = JsonValue("none", <<>>, "")

\* the decorator invokes the function, which looks for the key and the client
PWCall ==
    /\ pw_pc = "start"
    /\ pw_attempts < stop_after_attempt
    /\ pw_attempts' = pw_attempts + 1
    /\ pw_requests' = 0
    /\ \E client \in {"none", "ok"} :
         IF client = "none"
         THEN /\ pw_result' = process_with_prompt(Completion("none", "", ErrorDict))
              /\ pw_pc' = "done"
         ELSE /\ pw_pc' = "requesting"
              /\ UNCHANGED pw_result
    /\ UNCHANGED <<pw_outcomes, ceVars, reVars, runVars, chVars, vgVars, anVars, prVars, apVars>>

\* the client sends the request; after a transient failure it sends it again
\* until max_retries repetitions are used up, otherwise the function returns
\* and the decorator looks at how it ended
PWRequest ==
    /\ pw_pc = "requesting"
    /\ \E o \in RequestOutcomes :
         /\ pw_outcomes' = Append(pw_outcomes, o)
         /\ pw_requests' = pw_requests + 1
         /\ IF o.kind = "transient" /\ pw_requests < max_retries
            THEN pw_pc' = "requesting" /\ UNCHANGED pw_result
            ELSE LET ret == call_returned(o)
                 IN  /\ pw_result' = ret.value
                     /\ pw_pc' = IF ret.raised /\ pw_attempts < stop_after_attempt
                                 THEN "start" ELSE "done"
    /\ UNCHANGED <<pw_attempts, ceVars, reVars, runVars, chVars, vgVars, anVars, prVars, apVars>>

NextPW == PWCall \/ PWRequest

(***************************************************************************)
(* utils/ai_processor.py: the shared AIProcessor                           *)
(***************************************************************************)
MaxCalls == 2

\* who constructs AIProcessor: main.py and the five services
Holders ==
    {"main", "PaperParser", "PaperCharacterizationService", "ComponentExtractionService",
     "RelationshipExtractionService", "VisualizationGenerator"}

\* main.py and VisualizationGenerator pass no api_key
GivenKeys(holder) ==
    IF holder \in {"main", "VisualizationGenerator"} THEN {"none"} ELSE {"none", "k1", "k2"}

\* the methods of AIProcessor that send a request
ModelCalls ==
    {"analyze_paper_structure", "extract_ml_components", "generate_visualization", "process_with_prompt"}

NoFields == [initialized |-> FALSE, api_key |-> "none", client |-> 0]

\* __init__ without the check of _initialized
__init___again(fields, api_key, env, created, newClient) ==
    LET key == IF api_key # "none" THEN api_key ELSE env
    IN  [initialized |-> TRUE, api_key |-> key,
         client |-> IF key # "none" /\ created THEN newClient ELSE 0]

\* AIProcessor.__init__ on an object with these fields: created tells
\* whether making the client succeeded, newClient is the client it would be
__init__(fields, api_key, env, created, newClient) ==
    IF fields.initialized THEN fields
    ELSE LET key == IF api_key # "none" THEN api_key ELSE env
         IN  [initialized |-> TRUE, api_key |-> key,
              client |-> IF key # "none" /\ created THEN newClient ELSE 0]

\* what a model call returns: an error dictionary or the model's answer
model_call(fields, outcome) ==
    IF fields.api_key = "none" \/ fields.client = 0 THEN "error"
    ELSE IF outcome = "exception" THEN "error"
    ELSE "value"

APInit ==
    /\ ap_instance = 0 /\ ap_objects = 0 /\ ap_state = NoFields /\ ap_clients = 0
    /\ ap_env \in {"none", "env"}
    /\ ap_refs = [h \in Holders |-> 0]
    /\ ap_given = [h \in Holders |-> "unset"]
    /\ ap_closed = FALSE /\ ap_calls = 0
    /\ ap_last = [returned |-> "none", afterClose |-> FALSE]

APIdle ==
    /\ ap_instance = 0 /\ ap_objects = 0 /\ ap_state = NoFields /\ ap_clients = 0
    /\ ap_env = "none"
    /\ ap_refs = [h \in Holders |-> 0]
    /\ ap_given = [h \in Holders |-> "unset"]
    /\ ap_closed = FALSE /\ ap_calls = 0
    /\ ap_last = [returned |-> "none", afterClose |-> FALSE]

\* AIProcessor(api_key): __new__ then __init__ on what it returned
APConstruct(holder) ==
    /\ ap_refs[holder] = 0
    /\ \E api_key \in GivenKeys(holder), created \in BOOLEAN :
         LET fresh == ap_instance = 0
             obj == IF fresh THEN ap_objects + 1 ELSE ap_instance
             before == IF fresh THEN NoFields ELSE ap_state
             after == __init__(before, api_key, ap_env, created, ap_clients + 1)
         IN  /\ ap_instance' = obj
             /\ ap_objects' = IF fresh THEN ap_objects + 1 ELSE ap_objects
             /\ ap_state' = after
             /\ ap_clients' = IF after.client \notin {0, before.client} THEN ap_clients + 1 ELSE ap_clients
             /\ ap_refs' = [ap_refs EXCEPT ![holder] = obj]
             /\ ap_given' = [ap_given EXCEPT ![holder] = api_key]
    /\ UNCHANGED <<ap_env, ap_closed, ap_calls, ap_last>>
    /\ UNCHANGED <<ceVars, reVars, runVars, chVars, vgVars, anVars, prVars, pwVars>>

\* a holder calls one of the methods on its ai_processor
APCall(holder) ==
    /\ ap_refs[holder] # 0
    /\ ap_calls < MaxCalls
    /\ \E method \in ModelCalls, outcome \in {"ok", "exception"} :
         ap_last' = [returned |-> model_call(ap_state, outcome), afterClose |-> ap_closed]
    /\ ap_calls' = ap_calls + 1
    /\ UNCHANGED <<ap_instance, ap_objects, ap_state, ap_clients, ap_env, ap_refs, ap_given, ap_closed>>
    /\ UNCHANGED <<ceVars, reVars, runVars, chVars, vgVars, anVars, prVars, pwVars>>

\* main.py's shutdown handler: close() on the object main.py constructed
APClose ==
    /\ ap_refs["main"] # 0
    /\ ~ap_closed
    /\ ap_state' = [ap_state EXCEPT !.client = 0]
    /\ ap_closed' = TRUE
    /\ UNCHANGED <<ap_instance, ap_objects, ap_clients, ap_env, ap_refs, ap_given, ap_calls, ap_last>>
    /\ UNCHANGED <<ceVars, reVars, runVars, chVars, vgVars, anVars, prVars, pwVars>>

NextAP ==
    \/ \E holder \in Holders : APConstruct(holder) \/ APCall(holder)
    \/ APClose

(***************************************************************************)
(* services/component_extraction.py: the fallback ladder                   *)
(***************************************************************************)
_create_component(item, section_name) ==
    IF ~item.hasName \/ ~item.wellTyped
    THEN Component("other", <<"Extraction", "Error", "Component">>, section_name, "error")
    ELSE Component(_validate_component_type(item.type), <<"WMT">>, section_name, "reported")

RECURSIVE createAll(_)
createAll(items) ==
    IF items = <<>> THEN <<>>
    ELSE IF ~Head(items).isDict THEN createAll(Tail(items))
    ELSE <<_create_component(Head(items), "full_paper")>> \o createAll(Tail(items))

\* extract_components_fallback giving the minimal component when every item
\* of the list turned into an error component
extract_components_fallback_minimalOnError(paper_type, completion) ==
    LET response == process_with_prompt(completion)
        minimal == _create_minimal_components(paper_type)
        fromList(items) ==
            LET cs == createAll(items)
            IN  IF \E i \in DOMAIN cs : cs[i].details # "error" THEN cs ELSE minimal
    IN  IF response.kind = "dict_error" THEN minimal
        ELSE IF response.kind = "list" THEN fromList(response.items)
        ELSE IF response.kind = "str"
             THEN IF response.inner \in {"list", "dict_components"} THEN fromList(response.items)
                  ELSE minimal
        ELSE IF response.kind = "dict_components" THEN fromList(response.items)
        ELSE minimal

extract_components_fallback(paper_type, completion) ==
    LET response == process_with_prompt(completion)
        minimal == _create_minimal_components(paper_type)
        fromList(items) == LET cs == createAll(items) IN IF cs # <<>> THEN cs ELSE minimal
    IN  IF response.kind = "dict_error" THEN minimal
        ELSE IF response.kind = "list" THEN fromList(response.items)
        ELSE IF response.kind = "str"
             THEN IF response.inner \in {"list", "dict_components"} THEN fromList(response.items)
                  ELSE minimal
        ELSE IF response.kind = "dict_components" THEN fromList(response.items)
        ELSE minimal

\* the primary call followed by the fallback call whatever it returned
PrimaryStep_alwaysFallback(response) ==
    IF response.kind = "raise" THEN [next |-> "done", comps |-> <<>>]
    ELSE [next |-> "fallback", comps |-> <<>>]

\* extract_components_from_text, first half: the primary call.  Gives the
\* returned list, or "fallback" when the fallback is called next.
PrimaryStep(response) ==
    IF response.kind = "raise" THEN [next |-> "done", comps |-> <<>>]
    ELSE IF response.kind \in {"empty", "error"} THEN [next |-> "fallback", comps |-> <<>>]
    ELSE LET parsed == _parse_hierarchical_response(response)
         IN  IF parsed = <<>> THEN [next |-> "fallback", comps |-> <<>>]
             ELSE [next |-> "done", comps |-> parsed]

extract_components_from_text(paper_type, response, completion) ==
    LET p == PrimaryStep(response)
    IN  IF p.next = "done" THEN AssignIds(p.comps)
        ELSE AssignIds(extract_components_fallback(paper_type, completion))

\* a member, a string that is no member, or None
PaperTypeArgs == {"new_architecture", "unknown", "banana", NoValue}

CEInit ==
    /\ ce_pc = "start"
    /\ ce_type \in PaperTypeArgs
    /\ ce_primary = NoValue
    /\ ce_fallback = NoValue
    /\ ce_calls = <<>>
    /\ ce_result = <<>>

CEIdle ==
    /\ ce_pc = "idle" /\ ce_type = NoValue /\ ce_primary = NoValue
    /\ ce_fallback = NoValue /\ ce_calls = <<>> /\ ce_result = <<>>

CEPrimaryCall ==
    /\ ce_pc = "start"
    /\ \E r \in PrimaryResponses :
         /\ ce_primary' = r
         /\ ce_calls' = Append(ce_calls, "primary")
         /\ ce_pc' = PrimaryStep(r).next
         /\ ce_result' = AssignIds(PrimaryStep(r).comps)
    /\ UNCHANGED <<ce_type, ce_fallback, reVars, runVars, chVars, vgVars, anVars, prVars, pwVars, apVars>>

CEFallbackCall ==
    /\ ce_pc = "fallback"
    /\ \E c \in Completions :
         /\ ce_fallback' = c
         /\ ce_calls' = Append(ce_calls, "fallback")
         /\ ce_result' = AssignIds(extract_components_fallback(ce_type, c))
    /\ ce_pc' = "done"
    /\ UNCHANGED <<ce_type, ce_primary, reVars, runVars, chVars, vgVars, anVars, prVars, pwVars, apVars>>

(***************************************************************************)
(* services/relationship_extraction.py                                     *)
(***************************************************************************)
MaxComps == 3
MaxEdges == 2

Relationship(source_id, target_id, type) ==
    [source_id |-> source_id, target_id |-> target_id, type |-> type]

\* what a call gives: a returned value, or an exception that escapes it
Ok(v) == [kind |-> "ok", value |-> v, exc |-> NoValue]
Raise(e) == [kind |-> "raise", value |-> <<>>, exc |-> e]
NoOutcome == [kind |-> "none", value |-> <<>>, exc |-> NoValue]

\* an element of the list the relationship call is asked for.  Ids: 0 is a
\* missing or empty id, UnknownId an id of no component (ids are 1..MaxComps).  typeKind: absent
\* (no relationship_type key), null, str, or nonstr (say a number).
UnknownId == MaxComps + 1

EdgeItem(isDict, source, target, typeKind, type) ==
    [isDict |-> isDict, source |-> source, target |-> target, typeKind |-> typeKind, type |-> type]

EdgeEnds == {<<1, 2>>, <<2, 1>>, <<1, 1>>, <<1, UnknownId>>, <<UnknownId, 2>>, <<0, 2>>, <<1, 0>>}

EdgeItems ==
    { EdgeItem(TRUE, e[1], e[2], "str", Str("uses", "lower")) : e \in EdgeEnds }
    \cup { EdgeItem(TRUE, e[1], e[2], "absent", Str("", "")) : e \in EdgeEnds }
    \cup { EdgeItem(TRUE, 1, 2, k, Str("", "")) : k \in {"null", "nonstr"} }
    \cup { EdgeItem(TRUE, 1, 2, "str", Str("cites", "lower")) }
    \cup { EdgeItem(FALSE, 0, 0, "absent", Str("", "")) }

\* the relationship response: what process_text gave back.  kind: raise,
\* empty, error, malformed, other (JSON that is neither a list nor an object
\* with a relationships key), relsNotList, list, or dict (the list under the
\* relationships key)
RelResponse(kind, items) == [kind |-> kind, items |-> items]

RelResponses ==
    { RelResponse(k, <<>>) : k \in {"raise", "empty", "error", "malformed", "other", "relsNotList"} }
    \cup { RelResponse("list", l) : l \in SeqsUpTo(EdgeItems, MaxEdges) }
    \cup { RelResponse("dict", l) : l \in SeqsUpTo(EdgeItems, 1) }

\* edgeAccepted without the check for self-references
edgeAccepted_selfReference(item, component_ids) ==
    /\ item.isDict
    /\ ~(item.source = 0 \/ item.target = 0 \/ item.typeKind = "null")
    /\ ~(item.source \notin component_ids \/ item.target \notin component_ids)

\* the checks of the loop that an item passes before a Relationship is built
edgeAccepted(item, component_ids) ==
    /\ item.isDict
    /\ ~(item.source = 0 \/ item.target = 0 \/ item.typeKind = "null")
    /\ ~(item.source \notin component_ids \/ item.target \notin component_ids)
    /\ ~(item.source = item.target)

\* the loop over relationships_list; raised: an item made the loop raise
RECURSIVE validateEdges(_, _, _)
validateEdges(items, component_ids, acc) ==
    IF items = <<>> \/ acc.raised THEN acc
    ELSE LET item == Head(items)
             rel_type == IF item.typeKind = "absent" THEN Str("related_to", "upper") ELSE item.type
             next ==
                 IF ~edgeAccepted(item, component_ids) THEN acc
                 ELSE IF item.typeKind = "nonstr" THEN [acc EXCEPT !.raised = TRUE]
                 ELSE [acc EXCEPT !.rels = Append(@, Relationship(item.source, item.target, Upper(rel_type)))]
         IN  validateEdges(Tail(items), component_ids, next)

\* extract_relationships after the guard on the number of components
RelationshipsFromResponse(components, response) ==
    LET component_ids == {components[i].id : i \in DOMAIN components}
    IN  IF response.kind = "raise" THEN Raise("process_text")
        ELSE IF response.kind \in {"empty", "error"} THEN Ok(<<>>)
        ELSE IF response.kind \in {"malformed", "other", "relsNotList"} THEN Ok(<<>>)
        ELSE LET r == validateEdges(response.items, component_ids, [rels |-> <<>>, raised |-> FALSE])
             IN  IF r.raised THEN Ok(<<>>) ELSE Ok(r.rels)

\* extract_relationships skipping the model call only for an empty list
extract_relationships_emptyOnly(components, response) ==
    IF components = <<>> THEN [out |-> Ok(<<>>), calls |-> 0]
    ELSE [out |-> RelationshipsFromResponse(components, response), calls |-> 1]

\* extract_relationships: the returned value and the number of model calls
extract_relationships(components, response) ==
    IF Len(components) < 2 THEN [out |-> Ok(<<>>), calls |-> 0]
    ELSE [out |-> RelationshipsFromResponse(components, response), calls |-> 1]

\* members of ComponentType that _generate_fallback_relationships names
TypeOrderNames ==
    {"DATA_COLLECTION", "DATASET", "PREPROCESSING", "DATA_PARTITION", "MODEL", "LAYER",
     "MODULE", "TRAINING", "EVALUATION", "METRIC", "RESULTS"}

default_order == 100

type_order(type) ==
    CASE type = "data_collection" -> 1
      [] type = "dataset" -> 2
      [] type = "preprocessing" -> 3
      [] type = "data_partition" -> 4
      [] type = "model" -> 5
      [] type = "layer" -> 6
      [] type = "module" -> 7
      [] type = "training" -> 8
      [] type = "evaluation" -> 9
      [] type = "metric" -> 10
      [] type = "results" -> 11
      [] OTHER -> default_order

\* sorted(components, key=type order): Python's sort is stable
RECURSIVE insertSorted(_, _)
insertSorted(sortedSeq, c) ==
    IF sortedSeq = <<>> THEN <<c>>
    ELSE IF type_order(Head(sortedSeq).type) <= type_order(c.type)
         THEN <<Head(sortedSeq)>> \o insertSorted(Tail(sortedSeq), c)
         ELSE <<c>> \o sortedSeq

RECURSIVE sortedByType(_)
sortedByType(components) ==
    IF components = <<>> THEN <<>>
    ELSE insertSorted(sortedByType(SubSeq(components, 1, Len(components) - 1)),
                      components[Len(components)])

SelectSeq2(s, types) == SelectSeq(s, LAMBDA c : c.type \in types)

\* for a in as: for b in bs: if a.id != b.id: append(a -> b, "uses")
RECURSIVE pairEdges(_, _, _)
pairEdges(as, bs, inner) ==
    IF as = <<>> THEN <<>>
    ELSE IF inner > Len(bs) THEN pairEdges(Tail(as), bs, 1)
    ELSE (IF Head(as).id # bs[inner].id
          THEN <<Relationship(Head(as).id, bs[inner].id, Str("uses", "lower"))>>
          ELSE <<>>) \o pairEdges(as, bs, inner + 1)

_generate_fallback_relationships(components) ==
    IF Len(components) < 2 THEN Ok(<<>>)
    ELSE IF ~(TypeOrderNames \subseteq ComponentTypeNames) THEN Raise("AttributeError")
    ELSE LET sorted_components == sortedByType(components)
             flow == [i \in 1..(Len(sorted_components) - 1) |->
                        Relationship(sorted_components[i].id, sorted_components[i + 1].id, Str("flow", "lower"))]
             datasets == SelectSeq2(components, {"dataset", "data_collection"})
             data_partitions == SelectSeq2(components, {"data_partition"})
             models == SelectSeq2(components, {"model"})
             evaluations == SelectSeq2(components, {"evaluation"})
             metrics == SelectSeq2(components, {"metric"})
         IN  Ok(flow \o pairEdges(datasets, models, 1)
                     \o pairEdges(data_partitions, evaluations, 1)
                     \o pairEdges(evaluations, metrics, 1))

\* component lists handed to the relationship extractor
RETypes == {"dataset", "model", "evaluation"}

REComponentLists ==
    { AssignIds(l) : l \in SeqsUpTo({Component(t, <<"C">>, "full_paper", "reported") : t \in RETypes}, MaxComps) }

REInit ==
    /\ re_pc = "start"
    /\ re_components \in REComponentLists
    /\ re_response = NoValue
    /\ re_calls = 0
    /\ re_result = NoOutcome

\* one call of extract_relationships; r is what the model gives if called
REExtract ==
    /\ re_pc = "start"
    /\ \E r \in RelResponses :
         LET res == extract_relationships(re_components, r)
         IN  /\ re_response' = IF res.calls > 0 THEN r ELSE NoValue
             /\ re_result' = res.out
             /\ re_calls' = re_calls + res.calls
    /\ re_pc' = "done"
    /\ UNCHANGED <<re_components, ceVars, runVars, chVars, vgVars, anVars, prVars, pwVars, apVars>>

\* _generate_fallback_relationships called on the same components
REFallback ==
    /\ re_pc = "start"
    /\ re_result' = _generate_fallback_relationships(re_components)
    /\ re_pc' = "fallback_done"
    /\ UNCHANGED <<re_components, re_response, re_calls, ceVars, runVars, chVars, vgVars, anVars, prVars, pwVars, apVars>>

NextRE == REExtract \/ REFallback

REIdle ==
    /\ re_pc = "idle" /\ re_components = <<>> /\ re_response = NoValue
    /\ re_calls = 0 /\ re_result = NoOutcome

(***************************************************************************)
(* services/paper_characterization.py                                      *)
(***************************************************************************)
Lower(s) == [word |-> s.word, case |-> "lower"]

\* PaperType(value): lookup of a member by value, exact match
PaperTypeByValue(s) ==
    IF s.case = "lower" /\ s.word \in PaperType THEN s.word ELSE NoValue

\* _validate_paper_type returning the reported word when the lookup fails
validate_paper_type_str_keepsWord(raw) ==
    IF raw.kind # "str" THEN "unknown"
    ELSE LET m == PaperTypeByValue(Lower(Str(raw.word, raw.case)))
         IN  IF m # NoValue THEN m ELSE raw.word

\* PaperCharacterizationService._validate_paper_type
validate_paper_type_str(raw) ==
    IF raw.kind # "str" THEN "unknown"
    ELSE LET m == PaperTypeByValue(Lower(Str(raw.word, raw.case)))
         IN  IF m # NoValue THEN m ELSE "unknown"

SectionNames == {"methods", "results"}

\* what the response reports for one section: an object with its title and
\* summary ("" when the key is missing or empty), or something that is no
\* object; builds is FALSE when LocationInfo or Section cannot be made of
\* its values (a location that is no object, a page that is no number)
SectionData(isDict, title, summary, builds) ==
    [isDict |-> isDict, title |-> title, summary |-> summary, builds |-> builds]

SectionDatas ==
    { SectionData(TRUE, t, s, TRUE) : t \in {"", "Methods"}, s \in {"", "x"} }
    \cup { SectionData(TRUE, "Methods", "x", FALSE) }
    \cup { SectionData(FALSE, "", "", TRUE) }

\* models.Section, as far as the characterizer fills it
Section(name, title, summary) == [name |-> name, title |-> title, summary |-> summary]

\* _validate_section leaving the summary out
_validate_section_noSummary(name, section_data) ==
    IF name = "" \/ section_data.title = "" THEN <<>>
    ELSE IF ~section_data.builds THEN <<>>
    ELSE << Section(name, section_data.title, "") >>

\* _validate_section returning a Section without locations when they cannot
\* be made
_validate_section_keepsUnbuilt(name, section_data) ==
    IF name = "" \/ section_data.title = "" THEN <<>>
    ELSE << Section(name, section_data.title, section_data.summary) >>

\* PaperCharacterizationService._validate_section: None is <<>>
_validate_section(name, section_data) ==
    IF name = "" \/ section_data.title = "" THEN <<>>
    ELSE IF ~section_data.builds THEN <<>>
    ELSE << Section(name, section_data.title, section_data.summary) >>

\* the characterization response: what process_text gave back.  kind: raise,
\* none (None), empty (""), error (an object with an error key), prose (no
\* JSON, no fenced block), fenced_bad (a fenced block that is not JSON),
\* nondict (JSON that is no object), dict (a JSON object) or fenced_dict (a
\* JSON object inside a fenced block), the last two with the reported
\* paper_type (absent: no such key) and the reported sections
CharResponse(kind, paper_type, sections) ==
    [kind |-> kind, paper_type |-> paper_type, sections |-> sections]

ReportedSections ==
    UNION { [names -> SectionDatas] : names \in SUBSET SectionNames }

ReportedPaperTypes ==
    {RawStr("new_architecture", "lower"), RawStr("survey", "upper"), RawStr("banana", "lower"),
     RawNull, RawNum, [kind |-> "absent", word |-> "", case |-> ""]}

CharResponses ==
    { CharResponse(k, RawNull, <<>>) :
        k \in {"raise", "none", "empty", "error", "prose", "fenced_bad", "nondict"} }
    \cup { CharResponse(k, t, sec) :
             k \in {"dict", "fenced_dict"}, t \in ReportedPaperTypes, sec \in ReportedSections }

\* a result of characterize_paper; raw_response is <<>> when the key is absent
CharResult(error, raw_response, paper_type, sections) ==
    [error |-> error, raw_response |-> raw_response, paper_type |-> paper_type, sections |-> sections]

NoSections == [n \in {} |-> Section(n, "", "")]

CharError == CharResult(TRUE, <<>>, NoValue, NoSections)

\* the loop over raw_sections_map
validSections(reported) ==
    LET kept == { n \in DOMAIN reported :
                    reported[n].isDict /\ _validate_section(n, reported[n]) # <<>> }
    IN  [n \in kept |-> _validate_section(n, reported[n])[1]]

\* characterize_paper making up a characterization when nothing parses
characterize_paper_fabricating(text, response) ==
    IF text = "" THEN CharError
    ELSE IF response.kind \in {"raise", "none"}
    THEN CharResult(TRUE, <<>>, "unknown", NoSections)
    ELSE IF response.kind \in {"empty", "prose", "fenced_bad"}
    THEN CharResult(FALSE, <<>>, "unknown", NoSections)
    ELSE IF response.kind \in {"error", "nondict"} THEN CharError
    ELSE CharResult(FALSE, <<>>,
                    IF response.paper_type.kind = "absent" THEN "unknown"
                    ELSE validate_paper_type_str(response.paper_type),
                    validSections(response.sections))

characterize_paper(text, response) ==
    IF text = "" THEN CharError
    ELSE IF response.kind \in {"raise", "none"}
    THEN CharResult(TRUE, <<>>, "unknown", NoSections)
    ELSE IF response.kind \in {"empty", "prose", "fenced_bad"}
    THEN CharResult(TRUE, <<response>>, NoValue, NoSections)
    ELSE IF response.kind \in {"error", "nondict"} THEN CharError
    ELSE CharResult(FALSE, <<>>,
                    IF response.paper_type.kind = "absent" THEN "unknown"
                    ELSE validate_paper_type_str(response.paper_type),
                    validSections(response.sections))

(***************************************************************************)
(* services/visualization_generator.py                                     *)
(***************************************************************************)
\* a diagram source: its root keyword and what it shows
Diagram(root, kind, nodes, edges) == [root |-> root, kind |-> kind, nodes |-> nodes, edges |-> edges]

NoDiagram == Diagram("", "none", <<>>, <<>>)

_generate_error_mermaid == Diagram("flowchart", "error_placeholder", <<>>, <<>>)

\* the diagram response: what process_text gave back.  kind: raise, empty,
\* error, or text, with or without a fenced block whose content starts with
\* root
MermaidResponse(kind, fenced, root) == [kind |-> kind, fenced |-> fenced, root |-> root]

MermaidResponses ==
    { MermaidResponse(k, FALSE, "") : k \in {"raise", "empty", "error"} }
    \cup { MermaidResponse("text", f, r) : f \in BOOLEAN, r \in {"flowchart", "graph"} }

generate_mermaid_via_ai(response) ==
    IF response.kind = "raise" THEN _generate_error_mermaid
    ELSE IF response.kind \in {"empty", "error"} THEN _generate_error_mermaid
    ELSE IF response.fenced
         THEN IF response.root # "flowchart" THEN _generate_error_mermaid
              ELSE Diagram(response.root, "ai", <<>>, <<>>)
    ELSE _generate_error_mermaid

\* the id "minimal_component"; the ids the extractors assign are 1, 2, ...
minimal_component == 0 - 1

\* members of ComponentType that generate_mermaid_diagram names
TypeClassNames ==
    {"DATA_COLLECTION", "PREPROCESSING", "DATA_PARTITION", "MODEL", "TRAINING", "EVALUATION",
     "RESULTS", "OTHER"}

NodeOf(components, id) ==
    IF \E i \in DOMAIN components : components[i].id = id
    THEN CHOOSE i \in DOMAIN components : components[i].id = id
    ELSE 0

RECURSIVE diagramEdges(_, _)
diagramEdges(components, relationships) ==
    IF relationships = <<>> THEN <<>>
    ELSE LET r == Head(relationships)
             a == NodeOf(components, r.source_id)
             b == NodeOf(components, r.target_id)
             style == IF r.type = Str("flow", "lower") THEN "-->"
                      ELSE IF r.type = Str("reference", "lower") THEN "-.->"
                      ELSE "--type-->"
         IN  (IF a # 0 /\ b # 0 THEN << <<a, b, style>> >> ELSE <<>>)
             \o diagramEdges(components, Tail(relationships))

\* generate_mermaid_diagram: the diagram and whether the result has an error key
generate_mermaid_diagram(components, relationships) ==
    IF components = <<>> \/ (Len(components) = 1 /\ components[1].id = minimal_component)
    THEN [error |-> FALSE, diagram |-> Diagram("flowchart", "minimal", <<1>>, <<>>)]
    ELSE IF ~(TypeClassNames \subseteq ComponentTypeNames)
    THEN [error |-> TRUE, diagram |-> Diagram("flowchart", "error_diagram", <<>>, <<>>)]
    ELSE [error |-> FALSE,
          diagram |-> Diagram("flowchart", "templated", [i \in DOMAIN components |-> i],
                              diagramEdges(components, relationships))]

(***************************************************************************)
(* The Paper record, its diagnostics and the extraction result             *)
(***************************************************************************)
Visualization(diagram_data, component_mapping) ==
    [set |-> TRUE, diagram_data |-> diagram_data, component_mapping |-> component_mapping]

NoVisualization == [set |-> FALSE, diagram_data |-> NoDiagram, component_mapping |-> <<>>]

\* diagnostics: set is FALSE for None; a field is NoValue when its key is absent
NoDiagnostics ==
    [set |-> FALSE, parser_used |-> NoValue, stage |-> NoValue, pdf_extraction |-> NoValue,
     characterization |-> NoValue, component_extraction |-> NoValue,
     relationship_extraction |-> NoValue, visualization_method |-> NoValue]

EmptyDiagnostics == [NoDiagnostics EXCEPT !.set = TRUE]

NewPaper(status, diagnostics) ==
    [status |-> status, paper_type |-> NoValue, sections |-> {}, components |-> <<>>,
     relationships |-> <<>>, visualization |-> NoVisualization, error |-> NoValue,
     error_details |-> NoValue, diagnostics |-> diagnostics]

\* no Paper object yet
NoPaper == NewPaper(NoValue, NoDiagnostics)

\* AIExtractionService._create_error_response; hasSections: the result
\* dictionary never has a sections key
_create_error_response(error_msg, stage, diagnostics) ==
    [set |-> TRUE, success |-> FALSE, error |-> error_msg,
     diagnostics |-> [diagnostics EXCEPT !.set = TRUE, !.stage = stage],
     paper_type |-> NoValue, components |-> <<>>, relationships |-> <<>>]

NoResult ==
    [set |-> FALSE, success |-> FALSE, error |-> NoValue, diagnostics |-> NoDiagnostics,
     paper_type |-> NoValue, components |-> <<>>, relationships |-> <<>>]

NoLocals ==
    [diagnostics |-> NoDiagnostics, paper_type |-> NoValue, sections |-> {},
     components |-> <<>>, relationships |-> <<>>]

\* AIExtractionService._validate_paper_type, given what characterize_paper returned
validate_paper_type(paper_type) ==
    IF paper_type \in PaperType THEN paper_type ELSE "unknown"

Terminal == {"completed", "completed_minimal", "failed", "error"}

(***************************************************************************)
(* One call of characterize_paper, and what process_paper does with it     *)
(***************************************************************************)
NoCharResponse == CharResponse("notcalled", RawNull, <<>>)

CHInit ==
    /\ ch_pc = "start"
    /\ ch_text \in {"", "T"}
    /\ ch_response = NoCharResponse
    /\ ch_result = CharError
    /\ ch_paper_type = NoValue

CHIdle ==
    /\ ch_pc = "idle" /\ ch_text = "" /\ ch_response = NoCharResponse
    /\ ch_result = CharError /\ ch_paper_type = NoValue

\* characterize_paper: the model is asked only for a non-empty text
CHCharacterize ==
    /\ ch_pc = "start"
    /\ \E r \in IF ch_text = "" THEN {NoCharResponse} ELSE CharResponses :
         /\ ch_response' = r
         /\ ch_result' = characterize_paper(ch_text, r)
    /\ ch_pc' = "characterized"
    /\ UNCHANGED <<ch_text, ch_paper_type, ceVars, reVars, runVars, vgVars, anVars, prVars, pwVars, apVars>>

\* process_paper, characterization stage: stop on an error key, else
\* validate the paper type for the later stages
CHHandOver ==
    /\ ch_pc = "characterized"
    /\ IF ch_result.error
       THEN ch_pc' = "error" /\ UNCHANGED ch_paper_type
       ELSE ch_pc' = "handed" /\ ch_paper_type' = validate_paper_type(ch_result.paper_type)
    /\ UNCHANGED <<ch_text, ch_response, ch_result, ceVars, reVars, runVars, vgVars, anVars, prVars, pwVars, apVars>>

NextCH == CHCharacterize \/ CHHandOver

(***************************************************************************)
(* One call of generate_mermaid_diagram                                    *)
(***************************************************************************)
VGComponentLists ==
    REComponentLists
    \cup { << [Component("other", <<"C">>, "full_paper", "reported") EXCEPT !.id = minimal_component] >> }

VGRelationships ==
    { Relationship(e[1], e[2], t) :
        e \in {<<1, 2>>, <<2, 1>>, <<1, UnknownId>>},
        t \in {Str("flow", "lower"), Str("uses", "upper")} }

VGRelationshipLists == SeqsUpTo(VGRelationships, MaxEdges)

NoDiagramResult == [error |-> FALSE, diagram |-> NoDiagram]

VGInit ==
    /\ vg_pc = "start"
    /\ vg_components \in VGComponentLists
    /\ vg_relationships \in VGRelationshipLists
    /\ vg_result = NoDiagramResult

VGIdle ==
    /\ vg_pc = "idle" /\ vg_components = <<>> /\ vg_relationships = <<>>
    /\ vg_result = NoDiagramResult

VGGenerate ==
    /\ vg_pc = "start"
    /\ vg_result' = generate_mermaid_diagram(vg_components, vg_relationships)
    /\ vg_pc' = "done"
    /\ UNCHANGED <<vg_components, vg_relationships, ceVars, reVars, runVars, chVars, anVars, prVars, pwVars, apVars>>

NextVG == VGGenerate

(***************************************************************************)
(* services/relationship_extraction.py: analyze_relationships              *)
(***************************************************************************)
\* source_id and target_id of every relationship, in the order the second
\* loop reads them
RECURSIVE endpoints(_)
endpoints(relationships) ==
    IF relationships = <<>> THEN <<>>
    ELSE <<Head(relationships).source_id, Head(relationships).target_id>>
         \o endpoints(Tail(relationships))

Occurrences(seq, x) == Cardinality({i \in DOMAIN seq : seq[i] = x})

\* keys of component_connections in insertion order: an id enters the
\* dictionary when it is first met
RECURSIVE firstSeen(_, _)
firstSeen(seq, acc) ==
    IF seq = <<>> THEN acc
    ELSE firstSeen(Tail(seq),
                   IF \E i \in DOMAIN acc : acc[i] = Head(seq) THEN acc ELSE Append(acc, Head(seq)))

\* sorted(..., key=count, reverse=True): stable, so equal counts keep the
\* order of the sequence sorted
RECURSIVE insertByCount(_, _, _)
insertByCount(sortedSeq, x, count) ==
    IF sortedSeq = <<>> THEN <<x>>
    ELSE IF count[Head(sortedSeq)] >= count[x]
         THEN <<Head(sortedSeq)>> \o insertByCount(Tail(sortedSeq), x, count)
         ELSE <<x>> \o sortedSeq

RECURSIVE sortedByCount(_, _)
sortedByCount(seq, count) ==
    IF seq = <<>> THEN <<>>
    ELSE insertByCount(sortedByCount(SubSeq(seq, 1, Len(seq) - 1), count), seq[Len(seq)], count)

\* sorted_components[:3]
Top3(seq) == SubSeq(seq, 1, IF Len(seq) < 3 THEN Len(seq) ELSE 3)

\* analyze_relationships: an entry of central_components is <<id, connections>>
analyze_relationships(components, relationships) ==
    LET types == {relationships[i].type : i \in DOMAIN relationships}
        rel_types == [t \in types |-> Cardinality({i \in DOMAIN relationships : relationships[i].type = t})]
        ends == endpoints(relationships)
        keys == firstSeen(ends, <<>>)
        component_connections == [x \in {keys[i] : i \in DOMAIN keys} |-> Occurrences(ends, x)]
        sorted_components == sortedByCount(keys, component_connections)
        found == SelectSeq(Top3(sorted_components),
                           LAMBDA x : \E j \in DOMAIN components : components[j].id = x)
    IN  [relationship_types |-> rel_types,
         central_components |-> [k \in DOMAIN found |-> <<found[k], component_connections[found[k]]>>],
         total_relationships |-> Len(relationships)]

\* component lists of the analysis: up to one more than the extractors give
ANComponentLists ==
    { AssignIds([i \in 1..n |-> Component("model", <<"C">>, "full_paper", "reported")]) :
        n \in 0..(MaxComps + 1) }

\* relationships of the analysis; id 0 is the id of no component
ANRelationships ==
    { Relationship(e[1], e[2], t) :
        e \in {<<1, 2>>, <<2, 1>>, <<3, 4>>, <<2, 3>>, <<1, 0>>, <<1, 1>>},
        t \in {Str("flow", "lower"), Str("uses", "upper")} }

ANRelationshipLists == SeqsUpTo(ANRelationships, MaxEdges)

NoAnalysis == [relationship_types |-> <<>>, central_components |-> <<>>, total_relationships |-> 0]

ANInit ==
    /\ an_pc = "start"
    /\ an_components \in ANComponentLists
    /\ an_relationships \in ANRelationshipLists
    /\ an_result = NoAnalysis

ANIdle ==
    /\ an_pc = "idle" /\ an_components = <<>> /\ an_relationships = <<>>
    /\ an_result = NoAnalysis

ANAnalyze ==
    /\ an_pc = "start"
    /\ an_result' = analyze_relationships(an_components, an_relationships)
    /\ an_pc' = "done"
    /\ UNCHANGED <<an_components, an_relationships, ceVars, reVars, runVars, chVars, vgVars, prVars, pwVars, apVars>>

NextAN == ANAnalyze

(***************************************************************************)
(* Background tasks of two uploads: core/models.py PaperDatabase,          *)
(* routers/papers.py and process_paper of services/paper_service.py.       *)
(* A task is suspended at each await; its steps are the code between two   *)
(* awaits.  The Paper object a task holds is the object stored under its   *)
(* id, so every assignment to it is a write of that entry.                 *)
(***************************************************************************)
PaperIds == {"p1", "p2"}

PRPaper(id, status) ==
    [id |-> id, status |-> status, components |-> <<>>, relationships |-> <<>>,
     diagram |-> NoValue, error |-> NoValue]

\* papers.get(paper_id) of an id never added
NoRecord == PRPaper(NoValue, NoValue)

\* PaperDatabase.add_paper: cls.papers[paper.id] = paper
add_paper(papers, obj) == [papers EXCEPT ![obj.id] = obj]

\* PaperDatabase.update_paper storing the object under every key
update_paper_sharedSlot(papers, obj) == [x \in DOMAIN papers |-> obj]

\* PaperDatabase.update_paper: cls.papers[paper.id] = paper
update_paper(papers, obj) == [papers EXCEPT ![obj.id] = obj]

\* what the awaited calls of one task yield: the extraction result, the
\* text read again for the diagram, and the diagram of generate_mermaid_via_ai
PRInputs ==
    [extraction : {"failed", "ok"}, components : {<<>>, <<"c1">>},
     text : BOOLEAN, diagram : {"flowchart", "placeholder"}]

NoInput == [extraction |-> NoValue, components |-> <<>>, text |-> FALSE, diagram |-> NoValue]

\* process_paper from the return of extraction_service.process_paper to the
\* await of generate_mermaid_via_ai, or to its return False
extraction_returned(obj, in) ==
    IF in.extraction = "failed"
    THEN [paper |-> [obj EXCEPT !.error = "extraction", !.status = "failed"], returned |-> TRUE]
    ELSE LET copied == [obj EXCEPT !.components = in.components]
         IN  IF ~in.text
             THEN [paper |-> [copied EXCEPT !.error = "no text", !.status = "failed"],
                   returned |-> TRUE]
             ELSE [paper |-> copied, returned |-> FALSE]

\* process_paper after generate_mermaid_via_ai returned: its text starts with
\* "flowchart" whatever happened in it
diagram_returned(obj, in) ==
    [obj EXCEPT !.diagram = in.diagram,
                  !.status = IF @ # "failed" THEN "completed" ELSE @,
                  !.error = IF obj.status # "failed" THEN NoValue ELSE @]

\* run_paper_processing after process_paper returned
task_finished(obj, ok) ==
    IF ok THEN [obj EXCEPT !.status = "completed"]
    ELSE [obj EXCEPT !.status = "failed",
                       !.error = IF @ = NoValue THEN "failed without specific error" ELSE @]

PRInit ==
    /\ pr_run \in [PaperIds -> [pc : {"new"}, input : PRInputs, success : {FALSE}]]
    /\ pr_papers = [id \in PaperIds |-> NoRecord]
    /\ pr_files = [id \in PaperIds |-> "none"]

PRIdle ==
    /\ pr_run = [id \in PaperIds |-> [pc |-> "idle", input |-> NoInput, success |-> FALSE]]
    /\ pr_papers = [id \in PaperIds |-> NoRecord]
    /\ pr_files = [id \in PaperIds |-> "none"]

\* upload_paper with the file saved: record added, task scheduled
PRUpload(id) ==
    /\ pr_run[id].pc = "new"
    /\ pr_files' = [pr_files EXCEPT ![id] = "exists"]
    /\ pr_papers' = add_paper(pr_papers, PRPaper(id, "pending"))
    /\ pr_run' = [pr_run EXCEPT ![id].pc = "scheduled"]
    /\ UNCHANGED <<ceVars, reVars, runVars, chVars, vgVars, anVars, pwVars, apVars>>

\* run_paper_processing up to the await of process_paper's extraction
PRStart(id) ==
    /\ pr_run[id].pc = "scheduled"
    /\ LET obj == pr_papers[id]
       IN  IF obj = NoRecord
           THEN pr_run' = [pr_run EXCEPT ![id].pc = "done"] /\ UNCHANGED pr_papers
           ELSE /\ pr_papers' = update_paper(pr_papers, [obj EXCEPT !.status = "processing"])
                /\ pr_run' = [pr_run EXCEPT ![id].pc = "extracting"]
    /\ UNCHANGED <<pr_files, ceVars, reVars, runVars, chVars, vgVars, anVars, pwVars, apVars>>

PRExtracted(id) ==
    /\ pr_run[id].pc = "extracting"
    /\ LET step == extraction_returned(pr_papers[id], pr_run[id].input)
       IN  /\ pr_papers' = update_paper(pr_papers, step.paper)
           /\ pr_run' = [pr_run EXCEPT ![id].pc = IF step.returned THEN "returned" ELSE "drawing"]
    /\ UNCHANGED <<pr_files, ceVars, reVars, runVars, chVars, vgVars, anVars, pwVars, apVars>>

PRDrawn(id) ==
    /\ pr_run[id].pc = "drawing"
    /\ LET obj == diagram_returned(pr_papers[id], pr_run[id].input)
       IN  /\ pr_papers' = update_paper(pr_papers, obj)
           /\ pr_run' = [pr_run EXCEPT ![id].pc = "returned",
                                       ![id].success = (obj.status = "completed")]
    /\ UNCHANGED <<pr_files, ceVars, reVars, runVars, chVars, vgVars, anVars, pwVars, apVars>>

\* run_paper_processing after process_paper returned, with its finally block
PRFinish(id) ==
    /\ pr_run[id].pc = "returned"
    /\ pr_papers' = update_paper(pr_papers, task_finished(pr_papers[id], pr_run[id].success))
    /\ pr_files' = [pr_files EXCEPT ![id] = IF @ = "exists" THEN "deleted" ELSE @]
    /\ pr_run' = [pr_run EXCEPT ![id].pc = "done"]
    /\ UNCHANGED <<ceVars, reVars, runVars, chVars, vgVars, anVars, pwVars, apVars>>

NextPR ==
    \E id \in PaperIds :
        \/ PRUpload(id)
        \/ PRStart(id)
        \/ PRExtracted(id)
        \/ PRDrawn(id)
        \/ PRFinish(id)

(***************************************************************************)
(* Inputs of a pipeline run                                                *)
(***************************************************************************)
Entries == {"upload", "path", "service"}

ExtractorTypes == {"pymupdf", "mistral_ocr", "bogus"}

\* (text, error) of a text extraction: text is "" or "T"
TextOutcomes == { [text |-> t, error |-> e] : t \in {"", "T"}, e \in BOOLEAN }

RunCompletions ==
    { c \in Completions : \/ c.client # "ok"
                          \/ c.wrap = "plain" /\ c.value.kind \in {"list", "scalar"} /\ Len(c.value.items) <= 1 }

\* relationship responses of a run: a failure, or at most one edge, which
\* starts at the first component and has a type
RunRelResponses ==
    { r \in RelResponses :
        /\ Len(r.items) <= 1
        /\ \A i \in DOMAIN r.items :
              r.items[i].isDict /\ r.items[i].source = 1 /\ r.items[i].typeKind \in {"str", "nonstr"} }

\* primary responses of a run: a failure, or one stage of up to two nodes
RunPrimaryResponses ==
    { r \in PrimaryResponses :
        /\ Len(r.stages) <= 1
        /\ \A i \in DOMAIN r.stages :
              /\ Len(r.stages[i].components) <= 2
              /\ \A j \in DOMAIN r.stages[i].components : r.stages[i].components[j].children = <<>> }

RunInit ==
    /\ pc = "init"
    /\ entry \in Entries
    /\ parser \in IF entry = "upload" THEN ExtractorTypes ELSE {"pymupdf"}
    /\ tempFile = IF entry = "upload" THEN "none" ELSE "exists"
    /\ inStore = FALSE
    /\ paper = IF entry = "path" THEN NewPaper("pending", NoDiagnostics) ELSE NoPaper
    /\ full_text = ""
    /\ svc = NoLocals
    /\ xres = NoResult
    /\ viz_response = MermaidResponse("none", FALSE, "")
    /\ success = FALSE
    /\ executed = <<>>

RunIdle ==
    /\ pc = "idle" /\ entry = "none" /\ parser = "pymupdf" /\ tempFile = "none"
    /\ inStore = FALSE /\ paper = NoPaper /\ full_text = "" /\ svc = NoLocals
    /\ xres = NoResult /\ viz_response = MermaidResponse("none", FALSE, "") /\ success = FALSE
    /\ executed = <<>>

(***************************************************************************)
(* routers/papers.py                                                       *)
(***************************************************************************)
\* upload_paper: outcome is what happens while the file is saved
upload_paper ==
    /\ pc = "init" /\ entry = "upload"
    /\ \E outcome \in {"open_fails", "empty", "write_fails", "saved"} :
         IF parser \notin {"pymupdf", "mistral_ocr"}
         THEN pc' = "rejected" /\ UNCHANGED <<tempFile, paper, inStore>>
         ELSE CASE outcome = "open_fails" ->
                     pc' = "rejected" /\ UNCHANGED <<tempFile, paper, inStore>>
                [] outcome = "empty" ->
                     pc' = "rejected" /\ tempFile' = "exists" /\ UNCHANGED <<paper, inStore>>
                [] outcome = "write_fails" ->
                     pc' = "rejected" /\ tempFile' = "deleted" /\ UNCHANGED <<paper, inStore>>
                [] outcome = "saved" ->
                     /\ pc' = "scheduled"
                     /\ tempFile' = "exists"
                     /\ paper' = NewPaper("pending", [EmptyDiagnostics EXCEPT !.parser_used = parser])
                     /\ inStore' = TRUE
    /\ UNCHANGED <<entry, parser, executed, full_text, svc, xres, viz_response, success, ceVars, reVars, chVars, vgVars, anVars, prVars, pwVars, apVars>>

\* run_paper_processing up to the call of process_paper
run_paper_processing ==
    /\ pc = "scheduled"
    /\ IF ~inStore
       THEN pc' = "done" /\ UNCHANGED paper
       ELSE pc' = "pp_start" /\ paper' = [paper EXCEPT !.status = "processing"]
    /\ UNCHANGED <<entry, parser, executed, tempFile, inStore, full_text, svc, xres, viz_response, success, ceVars, reVars, chVars, vgVars, anVars, prVars, pwVars, apVars>>

\* run_paper_processing_finish reporting a failed run as Error
run_paper_processing_finish_asError ==
    /\ pc = "pp_returned" /\ entry = "upload"
    /\ paper' = IF success THEN [paper EXCEPT !.status = "completed"]
                ELSE [paper EXCEPT !.status = "error",
                                   !.error = IF @ = NoValue THEN "failed without specific error" ELSE @]
    /\ tempFile' = IF tempFile = "exists" THEN "deleted" ELSE tempFile
    /\ pc' = "done"
    /\ UNCHANGED <<entry, parser, executed, inStore, full_text, svc, xres, viz_response, success, ceVars, reVars, chVars, vgVars, anVars, prVars, pwVars, apVars>>

\* run_paper_processing_finish putting a failed run back to Processing
run_paper_processing_finish_keepsProcessing ==
    /\ pc = "pp_returned" /\ entry = "upload"
    /\ paper' = IF success THEN [paper EXCEPT !.status = "completed"]
                ELSE [paper EXCEPT !.status = "processing"]
    /\ tempFile' = IF tempFile = "exists" THEN "deleted" ELSE tempFile
    /\ pc' = "done"
    /\ UNCHANGED <<entry, parser, executed, inStore, full_text, svc, xres, viz_response, success, ceVars, reVars, chVars, vgVars, anVars, prVars, pwVars, apVars>>

\* run_paper_processing after process_paper returned, with its finally block
run_paper_processing_finish ==
    /\ pc = "pp_returned" /\ entry = "upload"
    /\ paper' = IF success THEN [paper EXCEPT !.status = "completed"]
                ELSE [paper EXCEPT !.status = "failed",
                                   !.error = IF @ = NoValue THEN "failed without specific error" ELSE @]
    /\ tempFile' = IF tempFile = "exists" THEN "deleted" ELSE tempFile
    /\ pc' = "done"
    /\ UNCHANGED <<entry, parser, executed, inStore, full_text, svc, xres, viz_response, success, ceVars, reVars, chVars, vgVars, anVars, prVars, pwVars, apVars>>

(***************************************************************************)
(* services/paper_service.py: the entry points                             *)
(***************************************************************************)
process_paper_path ==
    /\ pc = "init" /\ entry = "path"
    /\ paper' = [paper EXCEPT !.status = "processing"]
    /\ inStore' = TRUE
    /\ pc' = "pp_start"
    /\ UNCHANGED <<entry, parser, executed, tempFile, full_text, svc, xres, viz_response, success, ceVars, reVars, chVars, vgVars, anVars, prVars, pwVars, apVars>>

process_paper_path_finish ==
    /\ pc = "pp_returned" /\ entry = "path"
    /\ paper' = [paper EXCEPT !.status = IF success THEN "completed" ELSE "failed"]
    /\ tempFile' = IF tempFile = "exists" THEN "deleted" ELSE tempFile
    /\ pc' = "done"
    /\ UNCHANGED <<entry, parser, executed, inStore, full_text, svc, xres, viz_response, success, ceVars, reVars, chVars, vgVars, anVars, prVars, pwVars, apVars>>

\* PaperService.process_paper: the Paper is created and added to the store
service_create ==
    /\ pc = "init" /\ entry = "service"
    /\ paper' = NewPaper("processing", NoDiagnostics)
    /\ inStore' = TRUE
    /\ pc' = "service_extract"
    /\ UNCHANGED <<entry, parser, executed, tempFile, full_text, svc, xres, viz_response, success, ceVars, reVars, chVars, vgVars, anVars, prVars, pwVars, apVars>>

\* PaperService.process_paper: extractor.extract_text() and the checks on it
service_extract ==
    /\ pc = "service_extract"
    /\ \E outcome \in {"raise", "short", "ok"} :
         CASE outcome = "raise" ->
                /\ paper' = [paper EXCEPT !.status = "error", !.error = "Failed to extract text",
                                          !.error_details = "EXTRACTION_FAILED"]
                /\ pc' = "done"
           [] outcome = "short" ->
                /\ paper' = [paper EXCEPT !.status = "error", !.error = "Extracted text too short",
                                          !.error_details = "EXTRACTION_CONTENT_TOO_SHORT"]
                /\ pc' = "done"
           [] outcome = "ok" ->
                /\ pc' = "pp_start" /\ UNCHANGED paper
    /\ executed' = Append(executed, "text")
    /\ UNCHANGED <<entry, parser, tempFile, inStore, full_text, svc, xres, viz_response, success, ceVars, reVars, chVars, vgVars, anVars, prVars, pwVars, apVars>>

service_finish ==
    /\ pc = "pp_returned" /\ entry = "service"
    /\ paper' = IF ~success
                THEN IF paper.status # "error" THEN [paper EXCEPT !.status = "failed"] ELSE paper
                ELSE IF paper.status # "completed" THEN [paper EXCEPT !.status = "completed"] ELSE paper
    /\ pc' = "done"
    /\ UNCHANGED <<entry, parser, executed, tempFile, inStore, full_text, svc, xres, viz_response, success, ceVars, reVars, chVars, vgVars, anVars, prVars, pwVars, apVars>>

(***************************************************************************)
(* services/ai_extraction_service.py: AIExtractionService.process_paper,   *)
(* one action for each awaited stage                                       *)
(***************************************************************************)
\* process_paper reads the parser choice; stage 0 extracts the text
svc_extract_text ==
    /\ pc = "pp_start"
    /\ \E o \in TextOutcomes :
         LET parser_type == IF paper.diagnostics.set /\ paper.diagnostics.parser_used # NoValue
                            THEN paper.diagnostics.parser_used ELSE "pymupdf"
             diagnostics == [EmptyDiagnostics EXCEPT !.parser_used = parser_type]
             text == IF parser_type = "mistral_ocr" /\ o.error THEN "" ELSE o.text
         IN  IF parser_type \notin {"pymupdf", "mistral_ocr"}
             THEN /\ xres' = _create_error_response("Unsupported parser type", "pdf_extraction", NoDiagnostics)
                  /\ pc' = "pp_after"
                  /\ UNCHANGED <<full_text, svc>>
             ELSE IF o.error
             THEN /\ xres' = _create_error_response("extraction error", "pdf_extraction", diagnostics)
                  /\ pc' = "pp_after"
                  /\ UNCHANGED <<full_text, svc>>
             ELSE IF text = ""
             THEN /\ xres' = _create_error_response("No text could be extracted", "pdf_extraction", diagnostics)
                  /\ pc' = "pp_after"
                  /\ UNCHANGED <<full_text, svc>>
             ELSE /\ full_text' = text
                  /\ svc' = [NoLocals EXCEPT !.diagnostics = [diagnostics EXCEPT !.pdf_extraction = "success"]]
                  /\ pc' = "svc_characterize"
                  /\ UNCHANGED xres
    /\ executed' = IF paper.diagnostics.set /\ paper.diagnostics.parser_used \notin {NoValue, "pymupdf", "mistral_ocr"}
                    THEN executed ELSE Append(executed, "text")
    /\ UNCHANGED <<entry, parser, tempFile, inStore, paper, viz_response, success, ceVars, reVars, chVars, vgVars, anVars, prVars, pwVars, apVars>>

\* stage 1: characterization
svc_characterize ==
    /\ pc = "svc_characterize"
    /\ \E r \in CharResponses :
         LET c == characterize_paper(full_text, r)
         IN  IF c.error
             THEN /\ xres' = _create_error_response("characterization error", "paper_characterization",
                                                    svc.diagnostics)
                  /\ pc' = "pp_after"
                  /\ UNCHANGED svc
             ELSE /\ svc' = [svc EXCEPT !.paper_type = validate_paper_type(c.paper_type),
                                        !.sections = DOMAIN c.sections,
                                        !.diagnostics.characterization = "success"]
                  /\ pc' = "svc_components"
                  /\ UNCHANGED xres
    /\ executed' = Append(executed, "characterization")
    /\ UNCHANGED <<entry, parser, tempFile, inStore, paper, full_text, viz_response, success, ceVars, reVars, chVars, vgVars, anVars, prVars, pwVars, apVars>>

\* stage 2: component extraction.  The call of extract_components_from_text
\* is recorded in the extractor's variables: its argument, the responses of
\* the model calls it made, and what it returned
svc_components ==
    /\ pc = "svc_components"
    /\ \E r \in RunPrimaryResponses, c \in RunCompletions :
         LET components == extract_components_from_text(svc.paper_type, r, c)
             fellBack == PrimaryStep(r).next = "fallback"
         IN  /\ ce_pc' = "done"
             /\ ce_type' = svc.paper_type
             /\ ce_primary' = r
             /\ ce_fallback' = IF fellBack THEN c ELSE NoValue
             /\ ce_calls' = IF fellBack THEN <<"primary", "fallback">> ELSE <<"primary">>
             /\ ce_result' = components
             /\ IF components = <<>>
                THEN /\ xres' = _create_error_response("Component extraction produced no components",
                                                       "component_extraction", svc.diagnostics)
                     /\ pc' = "pp_after"
                     /\ UNCHANGED svc
                ELSE /\ svc' = [svc EXCEPT !.components = components,
                                           !.diagnostics.component_extraction = "success"]
                     /\ pc' = "svc_relationships"
                     /\ UNCHANGED xres
    /\ executed' = Append(executed, "components")
    /\ UNCHANGED <<entry, parser, tempFile, inStore, paper, full_text, viz_response, success, reVars, chVars, vgVars, anVars, prVars, pwVars, apVars>>

\* stage 3: relationship extraction, the analysis and the returned
\* dictionary.  The call of extract_relationships is recorded in the
\* relationship extractor's variables
svc_relationships ==
    /\ pc = "svc_relationships"
    /\ \E r \in RunRelResponses :
         LET call == extract_relationships(svc.components, r)
             res == call.out
             relationships == IF res.kind = "ok" THEN res.value ELSE <<>>
             afterCall == IF res.kind = "ok" THEN svc.diagnostics
                          ELSE [svc.diagnostics EXCEPT !.relationship_extraction = "failed"]
             diagnostics == [afterCall EXCEPT !.relationship_extraction = "success"]
         IN  /\ re_pc' = "done"
             /\ re_components' = svc.components
             /\ re_response' = IF call.calls = 0 THEN NoValue ELSE r
             /\ re_calls' = call.calls
             /\ re_result' = res
             /\ svc' = [svc EXCEPT !.relationships = relationships, !.diagnostics = diagnostics]
             /\ xres' = [set |-> TRUE, success |-> TRUE, error |-> NoValue, diagnostics |-> diagnostics,
                         paper_type |-> svc.paper_type, components |-> svc.components,
                         relationships |-> relationships]
    /\ pc' = "pp_after"
    /\ executed' = Append(executed, "relationships")
    /\ UNCHANGED <<entry, parser, tempFile, inStore, paper, full_text, viz_response, success, ceVars, chVars, vgVars, anVars, prVars, pwVars, apVars>>

(***************************************************************************)
(* services/paper_service.py: process_paper                                *)
(***************************************************************************)
\* parameters extract_relationships requires, and arguments the diagram
\* fallback of process_paper passes to it
ExtractRelationshipsParams == 4
FallbackCallArgs == 2

\* process_paper_after_extraction leaving the status alone when it gives up
process_paper_after_extraction_keepsStatus ==
    /\ pc = "pp_after"
    /\ \E text2 \in {"", "T"} :
         IF ~xres.success
         THEN /\ paper' = [paper EXCEPT !.error = xres.error, !.diagnostics = xres.diagnostics]
              /\ success' = FALSE
              /\ pc' = "pp_returned"
         ELSE LET copied == [paper EXCEPT !.paper_type = xres.paper_type,
                                          !.sections = {},
                                          !.components = xres.components,
                                          !.diagnostics = xres.diagnostics]
              IN  IF text2 = ""
                  THEN /\ paper' = [copied EXCEPT !.error = "Failed to retrieve text for visualization"]
                       /\ success' = FALSE
                       /\ pc' = "pp_returned"
                  ELSE /\ paper' = copied
                       /\ success' = success
                       /\ pc' = "pp_diagram"
    /\ executed' = IF xres.success THEN Append(executed, "text") ELSE executed
    /\ UNCHANGED <<entry, parser, tempFile, inStore, full_text, svc, xres, viz_response, ceVars, reVars, chVars, vgVars, anVars, prVars, pwVars, apVars>>

\* process_paper_after_extraction going on whatever the result reports
process_paper_after_extraction_unchecked ==
    /\ pc = "pp_after"
    /\ \E text2 \in {"", "T"} :
         LET copied == [paper EXCEPT !.paper_type = xres.paper_type,
                                     !.sections = {},
                                     !.components = xres.components,
                                     !.diagnostics = xres.diagnostics]
         IN  IF text2 = ""
             THEN /\ paper' = [copied EXCEPT !.error = "Failed to retrieve text for visualization",
                                             !.status = "failed"]
                  /\ success' = FALSE
                  /\ pc' = "pp_returned"
             ELSE /\ paper' = copied
                  /\ success' = success
                  /\ pc' = "pp_diagram"
    /\ executed' = IF xres.success THEN Append(executed, "text") ELSE executed
    /\ UNCHANGED <<entry, parser, tempFile, inStore, full_text, svc, xres, viz_response, ceVars, reVars, chVars, vgVars, anVars, prVars, pwVars, apVars>>

\* process_paper_after_extraction copying the result into the Paper before
\* it looks at the success flag, with Unknown for a missing paper_type
process_paper_after_extraction_copiesFirst ==
    /\ pc = "pp_after"
    /\ \E text2 \in {"", "T"} :
         LET copied == [paper EXCEPT !.paper_type = IF xres.paper_type = NoValue THEN "unknown" ELSE xres.paper_type,
                                     !.sections = {},
                                     !.components = xres.components,
                                     !.diagnostics = xres.diagnostics]
         IN  IF ~xres.success
             THEN /\ paper' = [copied EXCEPT !.error = xres.error, !.status = "failed"]
                  /\ success' = FALSE
                  /\ pc' = "pp_returned"
             ELSE IF text2 = ""
             THEN /\ paper' = [copied EXCEPT !.error = "Failed to retrieve text for visualization",
                                             !.status = "failed"]
                  /\ success' = FALSE
                  /\ pc' = "pp_returned"
             ELSE /\ paper' = copied
                  /\ success' = success
                  /\ pc' = "pp_diagram"
    /\ executed' = IF xres.success THEN Append(executed, "text") ELSE executed
    /\ UNCHANGED <<entry, parser, tempFile, inStore, full_text, svc, xres, viz_response, ceVars, reVars, chVars, vgVars, anVars, prVars, pwVars, apVars>>

\* lines 179-206: the extraction result is copied into the Paper, then the
\* text is extracted again for the diagram prompt (text2)
process_paper_after_extraction ==
    /\ pc = "pp_after"
    /\ \E text2 \in {"", "T"} :
         IF ~xres.success
         THEN /\ paper' = [paper EXCEPT !.error = xres.error, !.diagnostics = xres.diagnostics,
                                        !.status = "failed"]
              /\ success' = FALSE
              /\ pc' = "pp_returned"
         ELSE LET copied == [paper EXCEPT !.paper_type = xres.paper_type,
                                          !.sections = {},
                                          !.components = xres.components,
                                          !.diagnostics = xres.diagnostics]
              IN  IF text2 = ""
                  THEN /\ paper' = [copied EXCEPT !.error = "Failed to retrieve text for visualization",
                                                  !.status = "failed"]
                       /\ success' = FALSE
                       /\ pc' = "pp_returned"
                  ELSE /\ paper' = copied
                       /\ success' = success
                       /\ pc' = "pp_diagram"
    /\ executed' = IF xres.success THEN Append(executed, "text") ELSE executed
    /\ UNCHANGED <<entry, parser, tempFile, inStore, full_text, svc, xres, viz_response, ceVars, reVars, chVars, vgVars, anVars, prVars, pwVars, apVars>>

\* lines 208-280: the diagram call, its validation, the component-based
\* fallback, the final status and the returned flag
process_paper_diagram ==
    /\ pc = "pp_diagram"
    /\ \E m \in MermaidResponses :
         LET mermaid_syntax == generate_mermaid_via_ai(m)
             is_ai_syntax_valid == mermaid_syntax.root = "flowchart"
             crashed == [paper EXCEPT !.error = "Unexpected error during processing", !.status = "failed"]
             viz_data == generate_mermaid_diagram(paper.components, paper.relationships)
             afterDiagram ==
                 IF is_ai_syntax_valid
                 THEN [paper EXCEPT !.visualization = Visualization(mermaid_syntax, <<>>)]
                 ELSE IF paper.components = <<>>
                 THEN [paper EXCEPT !.error = "AI output invalid and no components for fallback",
                                    !.status = "failed"]
                 ELSE IF viz_data.error
                 THEN [paper EXCEPT !.error = "Fallback error", !.status = "failed"]
                 ELSE [paper EXCEPT !.visualization = Visualization(viz_data.diagram, viz_data.diagram.nodes),
                                    !.diagnostics = [(IF @.set THEN @ ELSE EmptyDiagnostics)
                                                        EXCEPT !.visualization_method = "fallback_component_based"]]
             final == IF afterDiagram.status # "failed"
                      THEN [afterDiagram EXCEPT !.status = "completed", !.error = NoValue]
                      ELSE afterDiagram
         IN  /\ viz_response' = m
             /\ IF ~is_ai_syntax_valid /\ paper.components # <<>> /\ FallbackCallArgs # ExtractRelationshipsParams
                THEN paper' = crashed /\ success' = FALSE
                ELSE paper' = final /\ success' = (final.status = "completed")
    /\ pc' = "pp_returned"
    /\ executed' = Append(executed, "diagram")
    /\ UNCHANGED <<entry, parser, tempFile, inStore, full_text, svc, xres, ceVars, reVars, chVars, vgVars, anVars, prVars, pwVars, apVars>>

Next ==
    \/ upload_paper
    \/ run_paper_processing
    \/ run_paper_processing_finish
    \/ process_paper_path
    \/ process_paper_path_finish
    \/ service_create
    \/ service_extract
    \/ service_finish
    \/ svc_extract_text
    \/ svc_characterize
    \/ svc_components
    \/ svc_relationships
    \/ process_paper_after_extraction
    \/ process_paper_diagram

\* a pipeline run; the two extractors are not called on their own
Init == RunInit /\ CEIdle /\ REIdle /\ CHIdle /\ VGIdle /\ ANIdle /\ PRIdle /\ PWIdle /\ APIdle

Spec == Init /\ [][Next]_vars

NextCE == CEPrimaryCall \/ CEFallbackCall

InitCE == CEInit /\ REIdle /\ RunIdle /\ CHIdle /\ VGIdle /\ ANIdle /\ PRIdle /\ PWIdle /\ APIdle

SpecCE == InitCE /\ [][NextCE]_vars

InitRE == REInit /\ CEIdle /\ RunIdle /\ CHIdle /\ VGIdle /\ ANIdle /\ PRIdle /\ PWIdle /\ APIdle

SpecRE == InitRE /\ [][NextRE]_vars

InitCH == CHInit /\ CEIdle /\ REIdle /\ RunIdle /\ VGIdle /\ ANIdle /\ PRIdle /\ PWIdle /\ APIdle

SpecCH == InitCH /\ [][NextCH]_vars

InitVG == VGInit /\ CEIdle /\ REIdle /\ RunIdle /\ CHIdle /\ ANIdle /\ PRIdle /\ PWIdle /\ APIdle

SpecVG == InitVG /\ [][NextVG]_vars

InitAN == ANInit /\ CEIdle /\ REIdle /\ RunIdle /\ CHIdle /\ VGIdle /\ PRIdle /\ PWIdle /\ APIdle

SpecAN == InitAN /\ [][NextAN]_vars

InitPR == PRInit /\ CEIdle /\ REIdle /\ RunIdle /\ CHIdle /\ VGIdle /\ ANIdle /\ PWIdle /\ APIdle

SpecPR == InitPR /\ [][NextPR]_vars

InitPW == PWInit /\ CEIdle /\ REIdle /\ RunIdle /\ CHIdle /\ VGIdle /\ ANIdle /\ PRIdle /\ APIdle

SpecPW == InitPW /\ [][NextPW]_vars

\* a pipeline run whose task is scheduled until it returns: the event loop
\* runs a background task that can take a step
SpecFair == Init /\ [][Next]_vars /\ WF_vars(Next)

\* constructions of AIProcessor, model calls on it, and close()
InitAP == APInit /\ CEIdle /\ REIdle /\ RunIdle /\ CHIdle /\ VGIdle /\ ANIdle /\ PRIdle /\ PWIdle

SpecAP == InitAP /\ [][NextAP]_vars

(***************************************************************************)
(* Properties                                                              *)
(***************************************************************************)
Range(f) == {f[i] : i \in DOMAIN f}

\* the fallback call was made and gave no component of its own
FallbackYieldsNothing ==
    /\ "fallback" \in Range(ce_calls)
    /\ LET response == process_with_prompt(ce_fallback)
       IN  \/ response.kind \notin {"list", "dict_components", "str"}
           \/ response.kind = "str" /\ response.inner \notin {"list", "dict_components"}
           \/ createAll(response.items) = <<>>

IsSynthetic(c) ==
    c.type = "other" /\ c.details = "extraction_note" /\ StartsWith(c.name, <<"Paper", "Content">>)

\* C1: whatever the model calls do, extract_components_from_text returns at
\* least one component, and exactly one synthetic component, tagged in its
\* details, when neither call yields a component.
C1_NeverEmpty ==
    ce_pc = "done" =>
        /\ Len(ce_result) >= 1
        /\ (_parse_hierarchical_response(ce_primary) = <<>> /\ FallbackYieldsNothing)
               => (Len(ce_result) = 1 /\ IsSynthetic(ce_result[1]))

\* C2: every returned Relationship joins two different components of the
\* list passed in, whether it comes from the model or from the rule-based
\* fallback.
C2_EdgesValid ==
    re_result.kind = "ok" =>
        \A i \in DOMAIN re_result.value :
            /\ re_result.value[i].source_id # re_result.value[i].target_id
            /\ \E j \in DOMAIN re_components : re_components[j].id = re_result.value[i].source_id
            /\ \E j \in DOMAIN re_components : re_components[j].id = re_result.value[i].target_id

\* the model reported a self-edge or a dangling edge next to a valid one,
\* and an edge was returned
C2_Witness ==
    /\ re_pc = "done"
    /\ re_calls = 1
    /\ re_response.kind = "list"
    /\ \E i \in DOMAIN re_response.items :
         LET it == re_response.items[i]
         IN  it.isDict /\ (it.source = it.target \/ it.source = UnknownId \/ it.target = UnknownId)
    /\ Len(re_result.value) >= 1

\* C3: every Component returned by the extractor has a type of the
\* ComponentType enumeration, whatever type the model reported.
C3_TypeInEnum ==
    \A i \in DOMAIN ce_result : ce_result[i].type \in ComponentType

\* a node with a null, numeric or unknown type was turned into a component
C3_Witness ==
    /\ ce_pc = "done"
    /\ ce_calls = <<"primary">>
    /\ ce_primary.kind = "tree"
    /\ Len(ce_primary.stages) >= 1
    /\ Len(ce_primary.stages[1].components) >= 1
    /\ ce_primary.stages[1].components[1].keys
    /\ ce_primary.stages[1].components[1].wellTyped
    /\ ce_primary.stages[1].components[1].type \in {RawNull, RawNum, RawStr("banana", "lower")}
    /\ Len(ce_result) >= 1

AfterDiagram == pc \in {"pp_returned", "done"} /\ viz_response.kind # "none"

AIDiagramFailed ==
    \/ viz_response.kind \in {"raise", "empty", "error"}
    \/ viz_response.kind = "text" /\ (~viz_response.fenced \/ viz_response.root # "flowchart")

\* C4: when the AI diagram call fails, has no fenced block or does not
\* start with the root keyword, the templated diagram is stored, and a
\* Completed paper never holds an error placeholder.
C4_TemplatedFallback ==
    /\ (AfterDiagram /\ AIDiagramFailed)
           => (paper.visualization.set /\ paper.visualization.diagram_data.kind \in {"templated", "minimal"})
    /\ (pc \in {"pp_returned", "done"} /\ paper.status = "completed")
           => (paper.visualization.set
               /\ paper.visualization.diagram_data.kind \notin {"error_placeholder", "error_diagram", "none"})

AllowedStatusStep(from, to) ==
    \/ from = to
    \/ from = NoValue /\ to \in {"pending", "processing"}
    \/ from = "pending" /\ to = "processing"
    \/ from = "processing" /\ to \in Terminal

\* C5: a terminal status is never changed, and the status only moves
\* Pending -> Processing -> one terminal status.
C5_StatusTerminal ==
    [][/\ (paper.status \in Terminal => paper'.status = paper.status)
       /\ AllowedStatusStep(paper.status, paper'.status)]_vars

\* the wrapper has run after process_paper left the paper in a terminal status
C5_Witness ==
    /\ pc = "done"
    /\ entry = "upload"
    /\ xres.set
    /\ paper.status \in Terminal

\* C6: a run whose component set is only the synthetic placeholder does not
\* return true with status Completed.
C6_MinimalNotCompleted ==
    (pc \in {"pp_returned", "done"} /\ Len(paper.components) = 1 /\ IsSynthetic(paper.components[1]))
        => ~(success /\ paper.status = "completed")

\* C7: after a successful run the Paper holds what the run extracted:
\* paper_type, sections, components, relationships, diagnostics and diagram.
C7_PaperHoldsResults ==
    (pc \in {"pp_returned", "done"} /\ success) =>
        /\ paper.paper_type = svc.paper_type
        /\ paper.sections = svc.sections
        /\ paper.components = svc.components
        /\ paper.relationships = svc.relationships
        /\ paper.diagnostics.set
        /\ paper.visualization.set

\* C8: the temporary copy of the uploaded file is deleted on every exit
\* path of its run, a rejected upload included.
C8_TempFileDeleted ==
    (pc \in {"done", "rejected"} /\ entry \in {"upload", "path"}) => tempFile # "exists"

NoValidEdge ==
    \/ re_response.kind \in {"raise", "empty", "error", "malformed", "other", "relsNotList"}
    \/ validateEdges(re_response.items, {re_components[i].id : i \in DOMAIN re_components},
                     [rels |-> <<>>, raised |-> FALSE]).rels = <<>>

TypesOf(components) == [i \in DOMAIN components |-> components[i].type]

\* C9: with two or more components and no valid edge from the model,
\* extract_relationships returns the rule-based fallback edges; for
\* [Dataset, Model, Evaluation] these are D->M flow, M->E flow, D->M uses.
C9_FallbackWhenNoEdges ==
    (re_pc = "done" /\ Len(re_components) >= 2 /\ NoValidEdge) =>
        /\ re_result.kind = "ok"
        /\ Len(re_result.value) >= Len(re_components) - 1
        /\ TypesOf(re_components) = <<"dataset", "model", "evaluation">>
               => re_result.value = << Relationship(1, 2, Str("flow", "lower")),
                                       Relationship(2, 3, Str("flow", "lower")),
                                       Relationship(1, 2, Str("uses", "lower")) >>

\* C10: with fewer than two components extract_relationships returns an
\* empty list, makes no model call and raises nothing.
C10_SkipBelowTwo ==
    (re_pc = "done" /\ Len(re_components) < 2) => (re_result = Ok(<<>>) /\ re_calls = 0)

\* extract_relationships has returned for a single component
C10_Witness ==
    re_pc = "done" /\ Len(re_components) = 1

\* C11: the rule-based relationship fallback is pure: on a list of two or
\* more components it completes without error, and a second invocation on
\* the same list gives the same edge list.
C11_FallbackPure ==
    (re_pc = "fallback_done" /\ Len(re_components) >= 2) =>
        /\ re_result.kind = "ok"
        /\ _generate_fallback_relationships(re_components) = re_result

\* the first node of the first stage of the primary response
FirstNode == ce_primary.stages[1].components[1]

FirstNodeBecameComponent ==
    /\ ce_pc = "done"
    /\ ce_calls = <<"primary">>
    /\ ce_primary.kind = "tree"
    /\ Len(ce_primary.stages) >= 1
    /\ Len(ce_primary.stages[1].components) >= 1
    /\ FirstNode.keys /\ FirstNode.wellTyped
    /\ Len(ce_result) >= 1

\* C12: type coercion is case-insensitive and idempotent: a reported type
\* that is the value of a ComponentType member, in any letter case, becomes
\* that member, and validating the member again returns it.
C12_ValidTypeKept ==
    (FirstNodeBecameComponent /\ FirstNode.type.kind = "str" /\ FirstNode.type.word \in ComponentType)
        => /\ ce_result[1].type = FirstNode.type.word
           /\ _validate_component_type(RawEnum(ce_result[1].type)) = ce_result[1].type

\* the statuses the diagnostics of the run hold for the component stage
ComponentStageStatuses == {svc.diagnostics.component_extraction} \ {NoValue}

\* the primary call gave malformed JSON and the fallback call a list of one
\* valid item
MalformedThenOneItem ==
    /\ pc = "svc_relationships"
    /\ ce_calls = <<"primary", "fallback">>
    /\ ce_primary.kind = "malformed"
    /\ ce_fallback.client = "ok" /\ ce_fallback.wrap = "plain"
    /\ ce_fallback.value.kind = "list"
    /\ Len(ce_fallback.value.items) = 1
    /\ ce_fallback.value.items[1].isDict
    /\ ce_fallback.value.items[1].hasName
    /\ ce_fallback.value.items[1].wellTyped

\* C13: when the primary call returns malformed JSON and the fallback call a
\* single valid item, the stage ends with exactly one component, built from
\* that item, and the diagnostics record the primary extraction as failed
\* and the fallback as succeeded.
C13_FallbackRecorded ==
    MalformedThenOneItem =>
        /\ Len(svc.components) = 1
        /\ svc.components = AssignIds(<< _create_component(ce_fallback.value.items[1], "full_paper") >>)
        /\ {"failed", "success"} \subseteq ComponentStageStatuses

\* C14: the last-resort synthesis returns exactly one Component, of type
\* Other, named after the paper type (Unknown when the paper type is missing
\* or no PaperType member), whose details note that automatic extraction
\* failed.
C14_LastResort ==
    (ce_pc = "done" /\ FallbackYieldsNothing) =>
        /\ Len(ce_result) = 1
        /\ ce_result[1].type = "other"
        /\ ce_result[1].name = <<"Paper", "Content", IF ce_type \in PaperType THEN ce_type ELSE "unknown">>
        /\ ce_result[1].details = "extraction_note"

\* the synthesis ran for a call that was given no paper type
C14_Witness ==
    ce_pc = "done" /\ FallbackYieldsNothing /\ ce_type = NoValue /\ Len(ce_result) = 1

\* a model edge between two components of the list, reported with type "uses"
UsesEdgeReported ==
    /\ re_pc = "done"
    /\ re_calls = 1
    /\ re_response.kind = "list"
    /\ Len(re_response.items) >= 1
    /\ re_response.items[1].isDict
    /\ re_response.items[1].typeKind = "str"
    /\ re_response.items[1].type = Str("uses", "lower")
    /\ edgeAccepted(re_response.items[1], {re_components[i].id : i \in DOMAIN re_components})
    /\ re_result.kind = "ok"
    /\ Len(re_result.value) >= 1

\* the model reported one edge, of a type outside the vocabulary of the prompt
OtherTypeReported ==
    /\ re_pc = "done"
    /\ re_calls = 1
    /\ re_response.kind = "list"
    /\ re_response.items = << EdgeItem(TRUE, 1, 2, "str", Str("cites", "lower")) >>
    /\ Len(re_components) >= 2

\* C20: a relationship type is stored in one casing: a model edge reported
\* with type "uses" is returned with type "uses", the string the rule-based
\* fallback and the diagram generator use; an edge whose type is outside
\* the vocabulary is stored, not rejected.
C20_TypeCasingKept ==
    /\ UsesEdgeReported => re_result.value[1].type = Str("uses", "lower")
    /\ OtherTypeReported => (re_result.kind = "ok" /\ Len(re_result.value) = 1)

CharacterizationReturned == ch_pc \in {"characterized", "handed", "error"} /\ ch_text # ""

\* C15: characterize_paper parses the response directly, then as the content
\* of a fenced block; when neither parses it returns an error result that
\* carries the raw response and has no paper_type and no sections, and the
\* run stops there.
C15_UnparsedIsError ==
    /\ (CharacterizationReturned /\ ch_response.kind \in {"prose", "fenced_bad"})
           => /\ ch_result.error
              /\ ch_result.raw_response = <<ch_response>>
              /\ ch_result.paper_type = NoValue
              /\ DOMAIN ch_result.sections = {}
              /\ ch_pc # "handed"
    /\ (CharacterizationReturned /\ ch_response.kind = "fenced_dict")
           => /\ ~ch_result.error
              /\ ch_result = characterize_paper(ch_text, [ch_response EXCEPT !.kind = "dict"])

\* the run stopped on a response of plain prose
C15_Witness ==
    ch_pc = "error" /\ ch_text # "" /\ ch_response.kind = "prose" /\ ch_result.error

\* the response is an object of paper_type "new_architecture" whose sections
\* each have a title
ScenarioA ==
    /\ CharacterizationReturned
    /\ ch_response.kind = "dict"
    /\ ch_response.paper_type = RawStr("new_architecture", "lower")
    /\ \A n \in DOMAIN ch_response.sections :
         /\ ch_response.sections[n].isDict /\ ch_response.sections[n].title # ""
         /\ ch_response.sections[n].builds

ReportsMember(raw) == raw.kind = "str" /\ raw.word \in PaperType

\* C17: a parsed response whose paper_type is missing, no string or no
\* member still gives a successful result of type Unknown; the type handed
\* to the later stages is a PaperType member, and a reported member passes
\* both validations unchanged.
C17_TypeAlwaysMember ==
    /\ (CharacterizationReturned /\ ch_response.kind \in {"dict", "fenced_dict"})
           => /\ ~ch_result.error
              /\ ch_result.paper_type \in PaperType
              /\ ~ReportsMember(ch_response.paper_type) => ch_result.paper_type = "unknown"
              /\ ReportsMember(ch_response.paper_type) => ch_result.paper_type = ch_response.paper_type.word
    /\ ch_pc = "handed"
           => /\ ch_paper_type \in PaperType
              /\ ch_paper_type = ch_result.paper_type

\* a response whose paper_type names no member was handed over as Unknown
C17_Witness ==
    /\ ch_pc = "handed"
    /\ ch_response.kind = "dict"
    /\ ch_response.paper_type = RawStr("banana", "lower")
    /\ ch_paper_type = "unknown"

\* C18: for zero components, or exactly one, generate_mermaid_diagram
\* returns a non-empty diagram that begins with the flowchart keyword, and
\* no error result.
C18_DegenerateDiagram ==
    (vg_pc = "done" /\ Len(vg_components) <= 1) =>
        /\ ~vg_result.error
        /\ vg_result.diagram.root = "flowchart"
        /\ vg_result.diagram.kind \in {"minimal", "templated"}
        /\ vg_result.diagram.nodes # <<>>

\* C19: the templated diagram of N >= 2 components has exactly N node
\* declarations, with node ids in input order, and at most N * (N - 1) edge
\* declarations, each between two generated node ids.
C19_TemplatedShape ==
    (vg_pc = "done" /\ Len(vg_components) >= 2) =>
        LET N == Len(vg_components)
            d == vg_result.diagram
        IN  /\ ~vg_result.error
            /\ d.kind = "templated"
            /\ d.nodes = [i \in 1..N |-> i]
            /\ Len(d.edges) <= N * (N - 1)
            /\ \A k \in DOMAIN d.edges : d.edges[k][1] \in 1..N /\ d.edges[k][2] \in 1..N

\* the run is over, or process_paper has returned, and the Paper shows a failure
RunFailed == pc \in {"pp_returned", "done"} /\ paper.status \in {"failed", "error"}

\* C21: on every failing exit path of a run the Paper's diagnostics are
\* populated and name the stage that failed.
C21_DiagnosticsNameStage ==
    RunFailed => (paper.diagnostics.set /\ paper.diagnostics.stage # NoValue)

\* process_paper has returned False and left a Failed paper with a message
ReturnedFailure == ~success /\ paper.status = "failed" /\ paper.error # NoValue

\* extract_relationships raised inside the run
RelationshipStageRaised == re_pc = "done" /\ re_result.kind = "raise"

\* the component stage of the run ended without a component
NoComponentsExtracted == ce_pc = "done" /\ ce_result = <<>>

C23_ErrorKindTag ==
    (pc = "done" /\ inStore /\ paper.status # "completed") =>
        /\ paper.status \in {"failed", "error"}
        /\ paper.error # NoValue
        /\ paper.error_details # NoValue

(***************************************************************************)
(* analyze_relationships                                                   *)
(***************************************************************************)
RECURSIVE SumOver(_, _)
SumOver(f, keys) ==
    IF keys = {} THEN 0
    ELSE LET k == CHOOSE x \in keys : TRUE
         IN  f[k] + SumOver(f, keys \ {k})

\* in+out degree of a component id in the relationships given
Degree(id) == Occurrences(endpoints(an_relationships), id)

\* the connected components in the order of the components list
ConnectedInListOrder ==
    LET ids == [j \in DOMAIN an_components |-> an_components[j].id]
    IN  SelectSeq(ids, LAMBDA x : Degree(x) > 0)

CentralByListOrder ==
    LET count == [x \in {an_components[j].id : j \in DOMAIN an_components} |-> Degree(x)]
    IN  Top3(sortedByCount(ConnectedInListOrder, count))

\* C24: analyze_relationships returns per-type counts that sum to the number
\* of relationships and, as central components, at most three components of
\* highest in+out degree, equal degrees in the order of the components list.
C24_CentralByListOrder ==
    an_pc = "done" =>
        /\ SumOver(an_result.relationship_types, DOMAIN an_result.relationship_types)
             = Len(an_relationships)
        /\ an_result.total_relationships = Len(an_relationships)
        /\ Len(an_result.central_components) <= 3
        /\ [k \in DOMAIN an_result.central_components |-> an_result.central_components[k][1]]
             = CentralByListOrder
        /\ \A k \in DOMAIN an_result.central_components :
             an_result.central_components[k][2] = Degree(an_result.central_components[k][1])

(***************************************************************************)
(* Interleaved background tasks                                            *)
(***************************************************************************)
\* the record the task of one paper leaves when no other task runs
RunAlone(id, in) ==
    LET started == [PRPaper(id, "pending") EXCEPT !.status = "processing"]
        step == extraction_returned(started, in)
        drawn == diagram_returned(step.paper, in)
    IN  IF step.returned THEN task_finished(step.paper, FALSE)
        ELSE task_finished(drawn, drawn.status = "completed")

OwnRecords ==
    \A id \in PaperIds :
        /\ pr_papers[id].id \in {id, NoValue}
        /\ pr_run[id].pc = "done" => pr_papers[id] = RunAlone(id, pr_run[id].input)

OnlyOwnWrites ==
    \A id \in PaperIds :
        pr_run'[id] = pr_run[id] => (pr_papers'[id] = pr_papers[id] /\ pr_files'[id] = pr_files[id])

\* C25: tasks of distinct paper ids interleaved at their awaits are
\* independent: the record each id ends with is the one its task produces
\* alone, and a step of one task changes no other id's record or file.
C25_RunsIndependent == []OwnRecords /\ [][OnlyOwnWrites]_vars

\* one task ran to completion while the other was suspended in the middle of
\* its own run
C25_Witness ==
    /\ pr_run["p1"].pc = "done" /\ pr_papers["p1"].status = "completed"
    /\ pr_run["p2"].pc = "drawing" /\ pr_papers["p2"].status = "processing"

(***************************************************************************)
(* The component extraction ladder                                         *)
(***************************************************************************)
\* the primary call returned an empty or error response, or one that parsed
\* to no component
PrimaryYieldsNothing ==
    /\ "primary" \in Range(ce_calls)
    /\ \/ ce_primary.kind \in {"empty", "error"}
       \/ ce_primary.kind # "raise" /\ _parse_hierarchical_response(ce_primary) = <<>>

PrimaryYieldsComponents ==
    /\ "primary" \in Range(ce_calls)
    /\ ce_primary.kind \notin {"raise", "empty", "error"}
    /\ _parse_hierarchical_response(ce_primary) # <<>>

\* C26: the ladder runs primary call, then fallback call, then synthesis: the
\* fallback call is made only after a primary call that yielded nothing, a
\* synthetic component is returned only after a fallback call that yielded
\* nothing, and a primary call that yields a component is the only model call.
C26_LadderOrder ==
    /\ ce_calls \in {<<>>, <<"primary">>, <<"primary", "fallback">>}
    /\ "fallback" \in Range(ce_calls) => PrimaryYieldsNothing
    /\ (\E i \in DOMAIN ce_result : IsSynthetic(ce_result[i])) => FallbackYieldsNothing
    /\ (ce_pc = "done" /\ PrimaryYieldsComponents) =>
          (ce_calls = <<"primary">> /\ ce_result = AssignIds(_parse_hierarchical_response(ce_primary)))

\* all three rungs were used: the primary response parsed to no component,
\* the fallback gave an error, the component returned is the synthetic one
C26_Witness ==
    /\ ce_pc = "done"
    /\ ce_calls = <<"primary", "fallback">>
    /\ ce_primary.kind \notin {"raise", "empty", "error"}
    /\ process_with_prompt(ce_fallback).kind = "dict_error"
    /\ Len(ce_result) = 1 /\ IsSynthetic(ce_result[1])

(***************************************************************************)
(* Order of the stages in a run                                            *)
(***************************************************************************)
StageRank(stage) ==
    CASE stage = "text" -> 1
      [] stage = "characterization" -> 2
      [] stage = "components" -> 3
      [] stage = "relationships" -> 4
      [] stage = "diagram" -> 5

\* every stage executed comes later in the pipeline than all stages before it
StagesInOrderOnce ==
    \A i, j \in DOMAIN executed : i < j => StageRank(executed[i]) < StageRank(executed[j])

\* a stage that calls the model ran
ModelCallMade ==
    Range(executed) \cap {"characterization", "components", "relationships", "diagram"} # {}

\* the extraction service gave up at a stage and nothing ran after it
FailureEndsRun ==
    (xres.set /\ ~xres.success) =>
        /\ pc \in {"pp_after", "pp_returned", "done"}
        /\ Range(executed) \cap {"relationships", "diagram"} = {}
        /\ xres.diagnostics.stage = "pdf_extraction" => ~ModelCallMade
        /\ xres.diagnostics.stage = "paper_characterization" => "components" \notin Range(executed)

\* C27: in a run the stages execute in the order text extraction,
\* characterization, component extraction, relationship extraction, diagram
\* generation, each at most once; a model call is made only after the text
\* extraction gave non-empty text, and no stage runs after the stage that
\* ended the run in failure.
C27_StagesOnceInOrder ==
    /\ StagesInOrderOnce
    /\ ModelCallMade => full_text # ""
    /\ FailureEndsRun

(***************************************************************************)
(* Exceptions of the stage functions                                       *)
(***************************************************************************)
\* C28: no stage function lets an exception escape; extract_relationships
\* returns a list of relationships whatever the model client does, the call
\* of the client raising included.
C28_RelationshipsNeverRaise ==
    (re_pc = "done" /\ re_calls > 0) => re_result.kind = "ok"

\* C29: when the relationship stage raises, the diagnostics the run returns
\* show that stage as failed, also when the run goes on with no relationships.
C29_FailedRecordKept ==
    (RelationshipStageRaised /\ xres.set) =>
        /\ xres.diagnostics.relationship_extraction = "failed"
        /\ pc \in {"pp_returned", "done"} => paper.diagnostics.relationship_extraction = "failed"

(***************************************************************************)
(* Repetition of a model call                                              *)
(***************************************************************************)
\* the response held no JSON that could be parsed
LogicalFailure(o) == o.kind = "response" /\ o.completion.wrap = "prose"

\* C30: a model call is sent again only after a transient transport failure
\* and only a bounded number of times; after a response that cannot be used
\* the call is not repeated and its error value is returned.
C30_RepeatOnlyTransient ==
    /\ \A i \in 1..(Len(pw_outcomes) - 1) : pw_outcomes[i].kind = "transient"
    /\ Len(pw_outcomes) <= 1 + max_retries
    /\ pw_attempts <= stop_after_attempt
    /\ (pw_outcomes # <<>> /\ LogicalFailure(pw_outcomes[Len(pw_outcomes)])) =>
          (pw_pc = "done" /\ pw_result = ErrorDict)

\* a request was sent again after a transient failure, the response then
\* held no JSON, and the call returned the error dictionary
C30_Witness ==
    /\ pw_pc = "done"
    /\ Len(pw_outcomes) = 2
    /\ pw_outcomes[1].kind = "transient"
    /\ LogicalFailure(pw_outcomes[2])
    /\ pw_result = ErrorDict

(***************************************************************************)
(* Types and nodes of the hierarchical response                            *)
(***************************************************************************)
\* every node of the response with the name of its stage, parents before
\* their children
RECURSIVE NodesOf(_, _)
NodesOf(nodes, stage) ==
    IF nodes = <<>> THEN <<>>
    ELSE <<[node |-> Head(nodes), stage |-> stage]>>
         \o NodesOf(Head(nodes).children, stage) \o NodesOf(Tail(nodes), stage)

RECURSIVE ReportedNodes(_)
ReportedNodes(stageList) ==
    IF stageList = <<>> THEN <<>>
    ELSE NodesOf(Head(stageList).components, Head(stageList).stage_name)
         \o ReportedNodes(Tail(stageList))

\* the reported type is a string that names no member, whatever its case
MatchesNoMember(type) == type.kind = "str" /\ type.word \notin ComponentType

\* the type the section name stands for, Other when it stands for none
SectionDefault(section_name) ==
    LET member == _section_to_component_type(section_name)
    IN  IF member = "MODEL" THEN "model"
        ELSE IF member = "RESULTS" THEN "results"
        ELSE IF member = "DATA_COLLECTION" THEN "dataset"
        ELSE "other"

\* C31: a reported type that matches no member is not turned into Other at
\* once: the type is inferred from keywords of the name, then from the source
\* section, and is Other only when both give nothing.  The names of the
\* model carry no keyword, so the section decides.
C31_InvalidTypeInferred ==
    (ce_pc = "done" /\ PrimaryYieldsComponents) =>
        LET reported == ReportedNodes(ce_primary.stages)
        IN  (Len(reported) = 1 /\ Len(ce_result) = 1 /\ MatchesNoMember(reported[1].node.type)) =>
                ce_result[1].type = SectionDefault(reported[1].stage)

(***************************************************************************)
(* Edges of the rule-based fallback                                        *)
(***************************************************************************)
\* pairs of ids the fallback joins by a "uses" edge
UsesPairs ==
    LET ids(types) == {re_components[i].id : i \in {j \in DOMAIN re_components : re_components[j].type \in types}}
    IN  (ids({"dataset", "data_collection"}) \X ids({"model"}))
        \cup (ids({"data_partition"}) \X ids({"evaluation"}))
        \cup (ids({"evaluation"}) \X ids({"metric"}))

\* C32: for two or more components the rule-based fallback gives, over the
\* components sorted stably by type precedence, the chain of n-1 "flow"
\* edges, one "uses" edge for every dataset/model, partition/evaluation and
\* evaluation/metric pair, and nothing else.
C32_ChainAndUses ==
    (re_pc = "fallback_done" /\ Len(re_components) >= 2) =>
        /\ re_result.kind = "ok"
        /\ LET edges == re_result.value
               n == Len(re_components)
               chain == sortedByType(re_components)
               flow == SelectSeq(edges, LAMBDA e : e.type = Str("flow", "lower"))
               uses == SelectSeq(edges, LAMBDA e : e.type = Str("uses", "lower"))
           IN  /\ Len(flow) = n - 1
               /\ \A i \in 1..(n - 1) :
                    flow[i].source_id = chain[i].id /\ flow[i].target_id = chain[i + 1].id
               /\ {<<uses[i].source_id, uses[i].target_id>> : i \in DOMAIN uses} = UsesPairs
               /\ Len(uses) = Cardinality(UsesPairs)
               /\ Len(edges) = Len(flow) + Len(uses)

(***************************************************************************)
(* Sections dropped by the characterization                                *)
(***************************************************************************)
ParsedObject == CharacterizationReturned /\ ch_response.kind \in {"dict", "fenced_dict"}

\* reported sections that are objects with a title
TitledSections ==
    {n \in DOMAIN ch_response.sections :
        n # "" /\ ch_response.sections[n].isDict /\ ch_response.sections[n].title # ""}

\* C33, as stated: a reported section is dropped when it is no object or
\* has no title or name; every other one is kept, and the result succeeds.
C33_OnlyUntitledDropped ==
    ParsedObject => (~ch_result.error /\ DOMAIN ch_result.sections = TitledSections)

\* C33, amended: a reported section is dropped when it is no object, has no
\* title or name, or holds values no Section can be made of; every other one
\* is kept, and no dropped section makes the result fail.
C33_UnbuiltDroppedToo ==
    ParsedObject =>
        /\ ~ch_result.error
        /\ DOMAIN ch_result.sections = {n \in TitledSections : ch_response.sections[n].builds}

\* one section was kept while the other, titled but not buildable, was dropped
C33_Witness ==
    /\ ParsedObject
    /\ DOMAIN ch_response.sections = SectionNames
    /\ ch_response.sections["methods"] = SectionData(TRUE, "Methods", "x", TRUE)
    /\ ch_response.sections["results"] = SectionData(TRUE, "Methods", "x", FALSE)
    /\ DOMAIN ch_result.sections = {"methods"}
    /\ ~ch_result.error

(***************************************************************************)
(* Flattening of the hierarchical response                                 *)
(***************************************************************************)
\* the Component of every reported node that carries the required fields
\* and whose values a Component can be made of, in the order of the nodes
RECURSIVE ComponentsOfNodes(_)
ComponentsOfNodes(reported) ==
    IF reported = <<>> THEN <<>>
    ELSE LET n == Head(reported).node
         IN  (IF n.keys /\ n.wellTyped
              THEN << Component(_validate_component_type(n.type), n.name, Head(reported).stage, "reported") >>
              ELSE <<>>)
             \o ComponentsOfNodes(Tail(reported))

PrimaryGaveTree ==
    /\ ce_pc = "done"
    /\ "primary" \in Range(ce_calls)
    /\ ce_primary.kind = "tree"

\* C34: flattening the response emits exactly one Component for every node,
\* at any depth of any stage's tree, that carries the required fields, with
\* the stage's name as its source section and parents before their children.
C34_OnePerNode ==
    PrimaryGaveTree =>
        _parse_hierarchical_response(ce_primary) = ComponentsOfNodes(ReportedNodes(ce_primary.stages))

(***************************************************************************)
(* The shared AIProcessor                                                  *)
(***************************************************************************)
\* every holder that has constructed AIProcessor holds the one object, one
\* client at most was ever made, and none is held once close() has run
OneInstance ==
    /\ ap_objects <= 1 /\ ap_clients <= 1
    /\ \A h \in Holders : ap_refs[h] \in {0, ap_instance}
    /\ ap_closed => ap_state.client = 0

\* a construction on the initialised object changes no field of it, and a
\* model call after close() returns an error value and makes no client
NeverInitialisedAgain ==
    /\ (ap_state.initialized /\ ap_refs' # ap_refs) => ap_state' = ap_state
    /\ (ap_closed /\ ap_calls' # ap_calls) =>
           (ap_last'.returned = "error" /\ ap_clients' = ap_clients /\ ap_state' = ap_state)

TaskStarted == entry \in {"upload", "path"} /\ inStore /\ pc \in {"scheduled", "pp_start"}

TaskReturned ==
    /\ entry \in {"upload", "path"} /\ inStore /\ pc = "done"
    /\ paper.status \in {"completed", "failed"}

\* C36: every run the background task starts for a paper in the store ends,
\* whatever the stages return or raise, with the Paper Completed or Failed;
\* none leaves it Pending or Processing.
C36_RunEndsTerminal ==
    /\ [](entry \in {"upload", "path"} /\ inStore /\ pc = "done" =>
              paper.status \in {"completed", "failed"})
    /\ (TaskStarted ~> TaskReturned)

\* a run of the upload task that stopped after its first stage has returned
C36_Witness ==
    /\ entry = "upload" /\ pc = "done" /\ inStore
    /\ paper.status = "failed" /\ ~success
    /\ Len(executed) = 1

(***************************************************************************)
(* What a completed Paper holds                                            *)
(***************************************************************************)
RunEnded == pc = "done" /\ inStore

\* C37: whenever the Paper is Completed at the end of a run, its component
\* list is non-empty and its visualization is set, with diagram data that is
\* not empty.
C37_CompletedHasDiagram ==
    (RunEnded /\ paper.status = "completed") =>
        /\ paper.components # <<>>
        /\ paper.visualization.set
        /\ paper.visualization.diagram_data # NoDiagram
        /\ paper.visualization.diagram_data.kind # "none"

\* a run completed with components and a diagram that starts with flowchart
C37_Witness ==
    /\ RunEnded /\ entry = "upload" /\ paper.status = "completed"
    /\ paper.components # <<>>
    /\ paper.visualization.set
    /\ paper.visualization.diagram_data.root = "flowchart"

(***************************************************************************)
(* What a failed extraction leaves alone                                   *)
(***************************************************************************)
ExtractionFailed == pc = "pp_after" /\ ~xres.success

\* C38: when the extraction service reports a failure, process_paper changes
\* only status, error and diagnostics of the Paper; paper_type, sections,
\* components, relationships and visualization keep their values.
C38_FailureKeepsFields ==
    [][ExtractionFailed =>
            /\ paper'.paper_type = paper.paper_type
            /\ paper'.sections = paper.sections
            /\ paper'.components = paper.components
            /\ paper'.relationships = paper.relationships
            /\ paper'.visualization = paper.visualization
            /\ paper'.status = "failed" /\ paper'.error = xres.error
            /\ paper'.diagnostics = xres.diagnostics]_vars

\* process_paper has returned after an extraction that reported a failure
\* at the component stage
C38_Witness ==
    /\ pc = "pp_returned" /\ xres.set /\ ~xres.success
    /\ paper.status = "failed" /\ paper.error = xres.error
    /\ paper.diagnostics.stage = "component_extraction"
    /\ paper.paper_type = NoValue /\ paper.components = <<>> /\ ~paper.visualization.set

(***************************************************************************)
(* The simplified fallback extraction                                      *)
(***************************************************************************)
FallbackReturned == ce_pc = "done" /\ "fallback" \in Range(ce_calls)

\* the objects of the list the fallback call gave, <<>> when it gave an
\* error, something unparseable or no list
FallbackObjects ==
    LET response == process_with_prompt(ce_fallback)
        gaveList == \/ response.kind \in {"list", "dict_components"}
                    \/ response.kind = "str" /\ response.inner \in {"list", "dict_components"}
    IN  IF gaveList THEN SelectSeq(response.items, LAMBDA item : item.isDict) ELSE <<>>

IsErrorComponent(component) ==
    component.name = <<"Extraction", "Error", "Component">> /\ component.type = "other"

\* C39: the simplified fallback returns exactly one Component for every
\* object of the model's list; an item without a name becomes an Extraction
\* Error Component of type Other and is not dropped, so a list whose only
\* item is invalid gives that error component and not the minimal one, which
\* appears only when the list holds no object or the response is an error
\* or cannot be parsed.
C39_OnePerObject ==
    FallbackReturned =>
        IF FallbackObjects # <<>>
        THEN /\ Len(ce_result) = Len(FallbackObjects)
             /\ \A i \in DOMAIN FallbackObjects :
                   /\ ~FallbackObjects[i].hasName => IsErrorComponent(ce_result[i])
                   /\ ce_result[i].source_section = "full_paper"
        ELSE ce_result = AssignIds(_create_minimal_components(ce_type))

\* the list held one object, without a name, and the call returned the one
\* error component
C39_Witness ==
    /\ FallbackReturned
    /\ Len(FallbackObjects) = 1 /\ ~FallbackObjects[1].hasName
    /\ Len(ce_result) = 1 /\ IsErrorComponent(ce_result[1])

====
